---- MODULE Spec2Model ----
(***************************************************************************)
(* Model of shoulder/row_data.py (class RowData): one dataset row is       *)
(* taken through check_joint_validity, set_segments,                       *)
(* check_segments_correction_validity and set_rotation_correction_callback.*)
(***************************************************************************)
EXTENDS Integers, Sequences, FiniteSets, TLC

VARIABLES
    row,                                          \* self.row
    pc,                                           \* position in the per-row pipeline
    joint,                                        \* self.joint
    parent_segment, child_segment,                \* self.parent_segment / self.child_segment
    parent_biomech_sys, child_biomech_sys,        \* self.parent_biomech_sys / self.child_biomech_sys
    has_rotation_data, has_translation_data,
    parent_segment_usable_for_rotation_data,
    child_segment_usable_for_rotation_data,
    parent_segment_usable_for_translation_data,
    child_segment_usable_for_translation_data,
    parent_definition_risk, child_definition_risk,
    usable_rotation_data, usable_translation_data,
    rotation_correction_callback,
    returned,                                     \* value returned by the last completed call
    raised,                                       \* exception raised by the last call, or "None"
    derivation,                                   \* what the sign-factor derivations reported to the last call
    descriptor,                                   \* arguments of the Frame constructor under study
    frame,                                        \* the Frame it returned
    default_vectors,                              \* compute_default_vector() of the frame's x, y, z axes
    properties,                                   \* the frame's properties, once read
    deviation,                                    \* the deviation columns of a row
    total_deviation                               \* its total_deviation column

vars == <<row, pc, joint, parent_segment, child_segment,
          parent_biomech_sys, child_biomech_sys,
          has_rotation_data, has_translation_data,
          parent_segment_usable_for_rotation_data,
          child_segment_usable_for_rotation_data,
          parent_segment_usable_for_translation_data,
          child_segment_usable_for_translation_data,
          parent_definition_risk, child_definition_risk,
          usable_rotation_data, usable_translation_data,
          rotation_correction_callback, returned, raised, derivation,
          descriptor, frame, default_vectors, properties, deviation, total_deviation>>

\* the attributes of a RowData
row_vars == <<row, joint, parent_segment, child_segment,
              parent_biomech_sys, child_biomech_sys,
              has_rotation_data, has_translation_data,
              parent_segment_usable_for_rotation_data,
              child_segment_usable_for_rotation_data,
              parent_segment_usable_for_translation_data,
              child_segment_usable_for_translation_data,
              parent_definition_risk, child_definition_risk,
              usable_rotation_data, usable_translation_data,
              rotation_correction_callback, derivation>>

\* what frame_reader.py works on
frame_vars == <<descriptor, frame, default_vectors, properties>>

\* the deviation columns
deviation_vars == <<deviation, total_deviation>>

-----------------------------------------------------------------------------
(* Python values *)

None == "None"
NaN == "nan"

\* a Python bool stored in an attribute that starts as None
B(b) == IF b THEN "True" ELSE "False"

\* Python `a and b` on attribute values: a if a is falsy, else b
PyAnd(a, b) == IF a \in {"None", "False"} THEN a ELSE b

\* None as the value of an object-valued variable, argument or result, and the
\* value of `frame` before any constructor has returned
PyNone == [kind |-> "None"]
NoFrame == [kind |-> "unset"]

-----------------------------------------------------------------------------
(* Enumerations *)

THORAX == "thorax"
CLAVICLE == "clavicle"
SCAPULA == "scapula"
HUMERUS == "humerus"
Segment == {THORAX, CLAVICLE, SCAPULA, HUMERUS}

TO_ISB_ROTATION == "TO_ISB_ROTATION"
TO_ISB_LIKE_ROTATION == "TO_ISB_LIKE_ROTATION"
SCAPULA_KOLZ_AC_TO_PA_ROTATION == "SCAPULA_KOLZ_AC_TO_PA_ROTATION"
SCAPULA_KOLZ_GLENOID_TO_PA_ROTATION == "SCAPULA_KOLZ_GLENOID_TO_PA_ROTATION"
Correction == {TO_ISB_ROTATION, TO_ISB_LIKE_ROTATION,
               SCAPULA_KOLZ_AC_TO_PA_ROTATION, SCAPULA_KOLZ_GLENOID_TO_PA_ROTATION}

\* tokens of a correction cell and the tag each one converts to
CorrectionTokens == {"to_isb", "to_isb_like", "kolz_AC_to_PA", "kolz_GC_to_PA"}

correction_str_to_enum(token) ==
    CASE token = "to_isb" -> TO_ISB_ROTATION
      [] token = "to_isb_like" -> TO_ISB_LIKE_ROTATION
      [] token = "kolz_AC_to_PA" -> SCAPULA_KOLZ_AC_TO_PA_ROTATION
      [] token = "kolz_GC_to_PA" -> SCAPULA_KOLZ_GLENOID_TO_PA_ROTATION

\* direction cells of a segment and the BiomechDirection each one converts to
biomech_direction_string_to_enum(cell) ==
    CASE cell = "+posteroanterior" -> "PlusPosteroAnterior"
      [] cell = "-posteroanterior" -> "MinusPosteroAnterior"
      [] cell = "+inferosuperior" -> "PlusInferoSuperior"
      [] cell = "-inferosuperior" -> "MinusInferoSuperior"
      [] cell = "+mediolateral" -> "PlusMedioLateral"
      [] cell = "-mediolateral" -> "MinusMedioLateral"

\* origin cells, by where the landmark lies for the segment: the segment's
\* ISB origin, another point of one of its ISB axes, or a point off them
OriginCells == {"isb_origin", "on_isb_axis", "off_isb_axis"}

biomech_origin_string_to_enum(cell) == cell

-----------------------------------------------------------------------------
(* BiomechCoordinateSystem and Joint *)

from_biomech_directions(x, y, z, origin, segment) ==
    [x |-> x, y |-> y, z |-> z, origin |-> origin, segment |-> segment]

is_isb_oriented(bsys) ==
    /\ bsys.x = "PlusPosteroAnterior"
    /\ bsys.y = "PlusInferoSuperior"
    /\ bsys.z = "PlusMedioLateral"

is_isb_origin(bsys) == bsys.origin = "isb_origin"

is_origin_on_an_isb_axis(bsys) == bsys.origin \in {"isb_origin", "on_isb_axis"}

is_isb(bsys) == is_isb_oriented(bsys) /\ is_isb_origin(bsys)

check_same_orientation(parent, child) ==
    /\ parent.x = child.x
    /\ parent.y = child.y
    /\ parent.z = child.z

GLENO_HUMERAL == "glenohumeral"
SCAPULO_THORACIC == "scapulothoracic"
ACROMIO_CLAVICULAR == "acromioclavicular"
STERNO_CLAVICULAR == "sternoclavicular"
JointType == {GLENO_HUMERAL, SCAPULO_THORACIC, ACROMIO_CLAVICULAR, STERNO_CLAVICULAR}

joint_parent(joint_type) ==
    CASE joint_type = GLENO_HUMERAL -> SCAPULA
      [] joint_type = SCAPULO_THORACIC -> THORAX
      [] joint_type = ACROMIO_CLAVICULAR -> CLAVICLE
      [] joint_type = STERNO_CLAVICULAR -> THORAX

joint_child(joint_type) ==
    CASE joint_type = GLENO_HUMERAL -> HUMERUS
      [] joint_type = SCAPULO_THORACIC -> SCAPULA
      [] joint_type = ACROMIO_CLAVICULAR -> SCAPULA
      [] joint_type = STERNO_CLAVICULAR -> CLAVICLE

isb_euler_sequence(j) ==
    IF j.joint_type = GLENO_HUMERAL THEN "YXY" ELSE "YXZ"

is_joint_sequence_isb(j) == j.euler_sequence = isb_euler_sequence(j)

euler_sequence_to_enum(cell) ==
    CASE cell = NaN -> None
      [] cell = "yxz" -> "YXZ"
      [] cell = "yxy" -> "YXY"
      [] cell = "zxy" -> "ZXY"

Joint(joint_type, euler_sequence, translation_origin, translation_frame) ==
    [joint_type |-> joint_type, euler_sequence |-> euler_sequence,
     translation_origin |-> translation_origin, translation_frame |-> translation_frame]

NoJoint == Joint(None, None, None, None)

NoSys == from_biomech_directions(None, None, None, None, None)

-----------------------------------------------------------------------------
(* checks.py *)

check_is_euler_sequence_provided(r) == r.euler_sequence # NaN

check_is_translation_provided(r) == r.origin_displacement # NaN /\ r.displacement_cs # NaN

check_parent_child_joint(j, r) ==
    /\ r.parent = joint_parent(j.joint_type)
    /\ r.child = joint_child(j.joint_type)

\* the four columns (x, y, z, origin) of a segment in the row
get_segment_columns(r, segment) == r.segments[segment]

check_segment_filled_with_nan(r, segment_cols) ==
    \E i \in 1..4 : segment_cols[i] = NaN

-----------------------------------------------------------------------------
(* RowData: corrections *)

get_correction_column(r, segment) == r.corrections[segment]

\* a correction cell: missing (NaN), or the tokens between its commas
NaNCell == [nan |-> TRUE, tokens |-> <<>>]
Cell(tokens) == [nan |-> FALSE, tokens |-> tokens]

\* what extract_corrections returns: None, or a list of Correction tags
NoCorrection == [none |-> TRUE, list |-> <<>>]
CorrectionList(list) == [none |-> FALSE, list |-> list]

extract_corrections(r, segment) ==
    LET correction_cell == get_correction_column(r, segment)
    IN IF correction_cell.nan
       THEN NoCorrection
       ELSE CorrectionList([i \in 1..Len(correction_cell.tokens) |->
                               correction_str_to_enum(correction_cell.tokens[i])])

\* Python `tag in correction` on a list
InList(tag, correction) == \E i \in 1..Len(correction) : correction[i] = tag

check_segment_has_no_correction_negated(correction) == ~correction.none

check_segment_has_no_correction(correction) == correction.none

check_segment_has_kolz_correction(correction) ==
    LET c == IF correction.none THEN <<>> ELSE correction.list
    IN \/ InList(SCAPULA_KOLZ_AC_TO_PA_ROTATION, c)
       \/ InList(SCAPULA_KOLZ_GLENOID_TO_PA_ROTATION, c)

check_segment_has_to_isb_correction_like_tag(correction) ==
    LET c == IF correction.none THEN <<>> ELSE correction.list
    IN InList(TO_ISB_LIKE_ROTATION, c)

check_segment_has_to_isb_correction(correction) ==
    LET c == IF correction.none THEN <<>> ELSE correction.list
    IN InList(TO_ISB_ROTATION, c)

check_segment_has_to_isb_like_correction(correction) ==
    LET c == IF correction.none THEN <<>> ELSE correction.list
    IN InList(TO_ISB_LIKE_ROTATION, c)

\* the corrections check_segments_correction_validity extracts first
parent_correction == extract_corrections(row, parent_segment)
child_correction == extract_corrections(row, child_segment)

\* Locals and attributes check_segments_correction_validity works on, at entry.
CorrectionEntry ==
    [parent_output |-> TRUE, child_output |-> TRUE,
     parent_rotation |-> parent_segment_usable_for_rotation_data,
     child_rotation |-> child_segment_usable_for_rotation_data,
     parent_translation |-> parent_segment_usable_for_translation_data,
     child_translation |-> child_segment_usable_for_translation_data,
     parent_risk |-> parent_definition_risk,
     child_risk |-> child_definition_risk]

\* if both segments are isb, we expect no correction to be filled
BothIsb(s) ==
    IF is_isb(parent_biomech_sys) /\ is_isb(child_biomech_sys)
    THEN LET po == check_segment_has_no_correction(parent_correction)
             co == check_segment_has_no_correction(child_correction)
         IN [s EXCEPT !.parent_output = po, !.child_output = co,
                      !.parent_rotation = B(po), !.child_rotation = B(co),
                      !.parent_translation = B(po), !.child_translation = B(co)]
    ELSE s

ParentIsbOrientedOnAxis_rotation_only(s) ==
    IF is_isb_oriented(parent_biomech_sys) /\ is_origin_on_an_isb_axis(parent_biomech_sys)
    THEN LET po == check_segment_has_no_correction(parent_correction)
         IN [s EXCEPT !.parent_output = po, !.parent_rotation = B(po)]
    ELSE s

ParentIsbOrientedOnAxis(s) ==
    IF is_isb_oriented(parent_biomech_sys) /\ is_origin_on_an_isb_axis(parent_biomech_sys)
    THEN LET po == check_segment_has_no_correction(parent_correction)
         IN [s EXCEPT !.parent_output = po, !.parent_rotation = B(po),
                      !.parent_translation = B(FALSE)]
    ELSE s

ChildIsbOrientedOnAxis(s) ==
    IF is_isb_oriented(child_biomech_sys) /\ is_origin_on_an_isb_axis(child_biomech_sys)
    THEN LET co == check_segment_has_no_correction(child_correction)
         IN [s EXCEPT !.child_output = co, !.child_rotation = B(co),
                      !.child_translation = B(FALSE)]
    ELSE s

ParentIsbOrientedOffAxis_kolz_for_all(s) ==
    IF is_isb_oriented(parent_biomech_sys) /\ ~is_origin_on_an_isb_axis(parent_biomech_sys)
    THEN LET po == check_segment_has_kolz_correction(parent_correction)
         IN [s EXCEPT !.parent_output = po, !.parent_risk = B(TRUE),
                      !.parent_rotation = B(po), !.parent_translation = B(FALSE)]
    ELSE s

ParentIsbOrientedOffAxis(s) ==
    IF is_isb_oriented(parent_biomech_sys) /\ ~is_origin_on_an_isb_axis(parent_biomech_sys)
    THEN LET s1 == IF parent_segment = SCAPULA
                   THEN [s EXCEPT !.parent_output =
                                      check_segment_has_kolz_correction(parent_correction)]
                   ELSE [s EXCEPT !.parent_risk = B(TRUE)]
         IN [s1 EXCEPT !.parent_rotation = B(s1.parent_output),
                       !.parent_translation = B(FALSE)]
    ELSE s

\* the scapula branch stores the Kolz verdict in parent_output (row_data.py:375)
ChildIsbOrientedOffAxis(s) ==
    IF is_isb_oriented(child_biomech_sys) /\ ~is_origin_on_an_isb_axis(child_biomech_sys)
    THEN LET s1 == IF child_segment = SCAPULA
                   THEN [s EXCEPT !.parent_output =
                                      check_segment_has_kolz_correction(child_correction)]
                   ELSE [s EXCEPT !.child_risk = B(TRUE)]
         IN [s1 EXCEPT !.child_rotation = B(s1.child_output),
                       !.child_translation = B(FALSE)]
    ELSE s

\* if segments are not isb, we expect the correction to_isb to be filled
ParentNotOrientedOnAxis(s) ==
    IF ~is_isb_oriented(parent_biomech_sys) /\ is_origin_on_an_isb_axis(parent_biomech_sys)
    THEN LET po1 == check_segment_has_to_isb_correction(parent_correction)
             po2 == IF parent_segment = SCAPULA
                    THEN check_segment_has_kolz_correction(parent_correction)
                    ELSE po1
         IN [s EXCEPT !.parent_output = po2, !.parent_rotation = B(po2),
                      !.parent_translation = B(FALSE)]
    ELSE s

ChildNotOrientedOnAxis(s) ==
    IF ~is_isb_oriented(child_biomech_sys) /\ is_origin_on_an_isb_axis(child_biomech_sys)
    THEN LET co1 == check_segment_has_to_isb_correction(child_correction)
             co2 == IF child_segment = SCAPULA
                    THEN check_segment_has_kolz_correction(child_correction)
                    ELSE co1
         IN [s EXCEPT !.child_output = co2, !.child_rotation = B(co2),
                      !.child_translation = B(FALSE)]
    ELSE s

ParentNotOrientedOffAxis(s) ==
    IF ~is_isb_oriented(parent_biomech_sys) /\ ~is_origin_on_an_isb_axis(parent_biomech_sys)
    THEN LET po1 == check_segment_has_to_isb_like_correction(parent_correction)
             po2 == IF parent_segment = SCAPULA
                    THEN check_segment_has_kolz_correction(parent_correction)
                    ELSE po1
         IN [s EXCEPT !.parent_output = po2, !.parent_rotation = B(po2),
                      !.parent_translation = B(FALSE), !.parent_risk = B(TRUE)]
    ELSE s

ChildNotOrientedOffAxis_risk_on_failure(s) ==
    IF ~is_isb_oriented(child_biomech_sys) /\ ~is_origin_on_an_isb_axis(child_biomech_sys)
    THEN LET co1 == check_segment_has_to_isb_like_correction(child_correction)
             co2 == IF child_segment = SCAPULA
                    THEN check_segment_has_kolz_correction(child_correction)
                    ELSE co1
         IN [s EXCEPT !.child_output = co2, !.child_rotation = B(co2),
                      !.child_translation = B(FALSE),
                      !.child_risk = IF co2 THEN s.child_risk ELSE B(TRUE)]
    ELSE s

ChildNotOrientedOffAxis(s) ==
    IF ~is_isb_oriented(child_biomech_sys) /\ ~is_origin_on_an_isb_axis(child_biomech_sys)
    THEN LET co1 == check_segment_has_to_isb_like_correction(child_correction)
             co2 == IF child_segment = SCAPULA
                    THEN check_segment_has_kolz_correction(child_correction)
                    ELSE co1
         IN [s EXCEPT !.child_output = co2, !.child_rotation = B(co2),
                      !.child_translation = B(FALSE), !.child_risk = B(TRUE)]
    ELSE s

\* the per-side blocks of check_segments_correction_validity, in source order
SideBlocks ==
    ChildNotOrientedOffAxis(ParentNotOrientedOffAxis(
    ChildNotOrientedOnAxis(ParentNotOrientedOnAxis(
    ChildIsbOrientedOffAxis(ParentIsbOrientedOffAxis(
    ChildIsbOrientedOnAxis(ParentIsbOrientedOnAxis(
    BothIsb(CorrectionEntry)))))))))

\* finally check the combination of parent and child
CombineRotation_either(s) ==
    IF s.child_rotation \in {"None", "False"} THEN s.parent_rotation ELSE s.child_rotation

CombineRotation(s) == PyAnd(s.child_rotation, s.parent_rotation)

CombineTranslation_of_rotation(s) == PyAnd(s.child_rotation, s.parent_rotation)

CombineTranslation(s) == PyAnd(s.child_translation, s.parent_translation)

-----------------------------------------------------------------------------
(* angle_conversion_callbacks.py: a callback is the record of what it closes over *)

NoCallback ==
    [kind |-> "None", factors |-> <<>>, previous_sequence |-> None,
     new_sequence |-> None, bsys_parent |-> NoSys, bsys_child |-> NoSys]

get_angle_conversion_callback_from_tuple(tuple_factors) ==
    [NoCallback EXCEPT !.kind = "from_tuple", !.factors = tuple_factors]

get_angle_conversion_callback_from_sequence(previous_sequence, new_sequence) ==
    [NoCallback EXCEPT !.kind = "from_sequence",
                       !.previous_sequence = previous_sequence,
                       !.new_sequence = new_sequence]

get_angle_conversion_callback_to_isb_with_sequence(previous_sequence, new_sequence, bsys_child, bsys_parent) ==
    [NoCallback EXCEPT !.kind = "to_isb_with_sequence",
                       !.previous_sequence = previous_sequence,
                       !.new_sequence = new_sequence,
                       !.bsys_child = bsys_child,
                       !.bsys_parent = bsys_parent]

\* the sign-factor callback applied to an angle triple
ApplyFromTuple(callback, angles) ==
    [i \in 1..3 |-> angles[i] * callback.factors[i]]

\* no derivation was called
NoDerivation ==
    [called |-> FALSE, frame_convertible |-> FALSE, sign_factors |-> <<>>,
     joint_convertible |-> FALSE]

-----------------------------------------------------------------------------
(* Rows *)

MaxCorrections == 1      \* longest list of tokens in a correction cell
MaxAngle == 2            \* angle triples range over -MaxAngle..MaxAngle

IsbDirections == <<"+posteroanterior", "+inferosuperior", "+mediolateral">>
TurnedDirections == <<"+mediolateral", "+inferosuperior", "-posteroanterior">>
BackwardDirections == <<"-posteroanterior", "+inferosuperior", "-mediolateral">>
DirectionCells == {IsbDirections, TurnedDirections, BackwardDirections}

NaNSegment == <<NaN, NaN, NaN, NaN>>

CorrectionCells ==
    {NaNCell} \cup
    {Cell(t) : t \in UNION {[1..n -> CorrectionTokens] : n \in 1..MaxCorrections}}

RowJoints == {GLENO_HUMERAL, SCAPULO_THORACIC, STERNO_CLAVICULAR}

MakeRow(joint_type, sequence, displacement, pdir, porigin, pcell, cdir, corigin, ccell) ==
    LET p == joint_parent(joint_type)
        c == joint_child(joint_type)
    IN [joint |-> joint_type, parent |-> p, child |-> c,
        euler_sequence |-> sequence,
        origin_displacement |-> displacement,
        displacement_cs |-> IF displacement = NaN THEN NaN ELSE p,
        segments |-> [sg \in Segment |->
                        IF sg = p THEN <<pdir[1], pdir[2], pdir[3], porigin>>
                        ELSE IF sg = c THEN <<cdir[1], cdir[2], cdir[3], corigin>>
                        ELSE NaNSegment],
        corrections |-> [sg \in Segment |->
                        IF sg = p THEN pcell ELSE IF sg = c THEN ccell ELSE NaNCell]]

Rows ==
    {MakeRow(j, q, d, pd, po, pcl, cd, co, ccl) :
        j \in RowJoints, q \in {"yxz", "yxy"}, d \in {NaN, "isb_origin"},
        pd \in DirectionCells, po \in OriginCells, pcl \in CorrectionCells,
        cd \in DirectionCells, co \in OriginCells, ccl \in CorrectionCells}

\* RowData.__init__
Init ==
    /\ row \in Rows
    /\ pc = "created"
    /\ joint = NoJoint
    /\ parent_segment = row.parent
    /\ child_segment = row.child
    /\ parent_biomech_sys = NoSys
    /\ child_biomech_sys = NoSys
    /\ has_rotation_data = None
    /\ has_translation_data = None
    /\ parent_segment_usable_for_rotation_data = None
    /\ child_segment_usable_for_rotation_data = None
    /\ parent_segment_usable_for_translation_data = None
    /\ child_segment_usable_for_translation_data = None
    /\ parent_definition_risk = None
    /\ child_definition_risk = None
    /\ usable_rotation_data = None
    /\ usable_translation_data = None
    /\ rotation_correction_callback = NoCallback
    /\ returned = <<>>
    /\ raised = None
    /\ derivation = NoDerivation
    /\ descriptor = PyNone
    /\ frame = NoFrame
    /\ default_vectors = <<>>
    /\ properties = PyNone
    /\ deviation = <<>>
    /\ total_deviation = None

-----------------------------------------------------------------------------
(* RowData methods, called in the order segments -> joint -> corrections -> callback *)

flags == <<parent_segment_usable_for_rotation_data,
           child_segment_usable_for_rotation_data,
           parent_segment_usable_for_translation_data,
           child_segment_usable_for_translation_data,
           parent_definition_risk, child_definition_risk,
           usable_rotation_data, usable_translation_data>>

\* the Joint check_joint_validity builds from the row
BuildJoint_without_translation(r, no_euler_sequence, no_translation) ==
    Joint(r.joint, euler_sequence_to_enum(r.euler_sequence), None, None)

BuildJoint(r, no_euler_sequence, no_translation) ==
    IF ~no_euler_sequence /\ no_translation
    THEN Joint(r.joint, euler_sequence_to_enum(r.euler_sequence), None, None)
    ELSE Joint(r.joint, euler_sequence_to_enum(r.euler_sequence),
               biomech_origin_string_to_enum(r.origin_displacement), r.displacement_cs)

CheckJointValidity ==
    /\ pc = "created"
    /\ LET no_euler_sequence == ~check_is_euler_sequence_provided(row)
           no_translation == ~check_is_translation_provided(row)
           built == BuildJoint(row, no_euler_sequence, no_translation)
       IN /\ has_rotation_data' = B(~no_euler_sequence)
          /\ has_translation_data' = B(~no_translation)
          /\ IF no_euler_sequence /\ no_translation
             THEN /\ joint' = joint
                  /\ returned' = <<B(FALSE)>>
             ELSE /\ joint' = built
                  /\ returned' = <<B(/\ check_parent_child_joint(built, row)
                                     /\ ~check_segment_filled_with_nan(
                                            row, get_segment_columns(row, parent_segment))
                                     /\ ~check_segment_filled_with_nan(
                                            row, get_segment_columns(row, child_segment)))>>
    /\ pc' = "joint_checked"
    /\ UNCHANGED <<row, parent_segment, child_segment, parent_biomech_sys,
                   child_biomech_sys, flags, rotation_correction_callback, raised>>
    /\ UNCHANGED derivation
    /\ UNCHANGED <<frame_vars, deviation_vars>>

SegmentSystem(r, segment) ==
    LET columns == get_segment_columns(r, segment)
    IN from_biomech_directions(biomech_direction_string_to_enum(columns[1]),
                               biomech_direction_string_to_enum(columns[2]),
                               biomech_direction_string_to_enum(columns[3]),
                               biomech_origin_string_to_enum(columns[4]),
                               segment)

SetSegments ==
    /\ pc = "joint_checked"
    /\ parent_biomech_sys' = SegmentSystem(row, parent_segment)
    /\ child_biomech_sys' = SegmentSystem(row, child_segment)
    /\ pc' = "segments_set"
    /\ UNCHANGED <<row, joint, parent_segment, child_segment, has_rotation_data,
                   has_translation_data, flags, rotation_correction_callback,
                   returned, raised>>
    /\ UNCHANGED derivation
    /\ UNCHANGED <<frame_vars, deviation_vars>>

CheckSegmentsCorrectionValidity ==
    /\ pc = "segments_set"
    /\ LET s == SideBlocks
       IN /\ parent_segment_usable_for_rotation_data' = s.parent_rotation
          /\ child_segment_usable_for_rotation_data' = s.child_rotation
          /\ parent_segment_usable_for_translation_data' = s.parent_translation
          /\ child_segment_usable_for_translation_data' = s.child_translation
          /\ parent_definition_risk' = s.parent_risk
          /\ child_definition_risk' = s.child_risk
          /\ usable_rotation_data' = CombineRotation(s)
          /\ usable_translation_data' = CombineTranslation(s)
          /\ returned' = <<CombineRotation(s), CombineTranslation(s)>>
    /\ pc' = "corrections_checked"
    /\ UNCHANGED <<row, joint, parent_segment, child_segment, parent_biomech_sys,
                   child_biomech_sys, has_rotation_data, has_translation_data,
                   rotation_correction_callback, raised>>
    /\ UNCHANGED derivation
    /\ UNCHANGED <<frame_vars, deviation_vars>>

\* results the frame-level derivation convert_rotation_matrix_from_one_coordinate_system_to_another
\* can report: whether sign factors exist, and the factors
SignFactors == {<<a, b, c>> : a \in {-1, 1}, b \in {-1, 1}, c \in {-1, 1}}

UnsupportedConversion == "NotImplementedError: Not implemented yet, I don't know what to do yet."
UnreachableState == "NotImplementedError: Check conversion not implemented yet"

\* both sides ISB-oriented: only the declared sequence decides (row_data.py:444-455)
IsbOrientedCallback_swapped ==
    IF is_joint_sequence_isb(joint)
    THEN [usable |-> B(TRUE), raised |-> None,
          callback |-> get_angle_conversion_callback_from_tuple(<<1, 1, 1>>)]
    ELSE [usable |-> B(TRUE), raised |-> None,
          callback |-> get_angle_conversion_callback_from_sequence(
                           isb_euler_sequence(joint), joint.euler_sequence)]

IsbOrientedCallback ==
    IF is_joint_sequence_isb(joint)
    THEN [usable |-> B(TRUE), raised |-> None,
          callback |-> get_angle_conversion_callback_from_tuple(<<1, 1, 1>>)]
    ELSE [usable |-> B(TRUE), raised |-> None,
          callback |-> get_angle_conversion_callback_from_sequence(
                           joint.euler_sequence, isb_euler_sequence(joint))]

ConvertedCallback_either(is_sequence_convertible_through_factors, sign_factors, joint_convertible) ==
    IF joint_convertible \/ is_sequence_convertible_through_factors
    THEN [usable |-> B(TRUE), raised |-> None,
          callback |-> get_angle_conversion_callback_from_tuple(sign_factors)]
    ELSE [usable |-> B(TRUE), raised |-> None,
          callback |-> get_angle_conversion_callback_to_isb_with_sequence(
                           joint.euler_sequence, isb_euler_sequence(joint),
                           child_biomech_sys, parent_biomech_sys)]

\* the sign-factor or full-reconstruction callback (row_data.py:485-498)
ConvertedCallback(is_sequence_convertible_through_factors, sign_factors, joint_convertible) ==
    IF joint_convertible /\ is_sequence_convertible_through_factors
    THEN [usable |-> B(TRUE), raised |-> None,
          callback |-> get_angle_conversion_callback_from_tuple(sign_factors)]
    ELSE [usable |-> B(TRUE), raised |-> None,
          callback |-> get_angle_conversion_callback_to_isb_with_sequence(
                           joint.euler_sequence, isb_euler_sequence(joint),
                           child_biomech_sys, parent_biomech_sys)]

\* at least one side not ISB-oriented: the to-ISB correction (row_data.py:457-498)
ToIsbCallback_without_raise(is_sequence_convertible_through_factors, sign_factors, joint_convertible) ==
    ConvertedCallback(is_sequence_convertible_through_factors, sign_factors,
                      joint_convertible)

ToIsbCallback(is_sequence_convertible_through_factors, sign_factors, joint_convertible) ==
    IF ~check_same_orientation(parent_biomech_sys, child_biomech_sys)
    THEN [usable |-> B(FALSE), raised |-> UnsupportedConversion,
          callback |-> NoCallback]
    ELSE ConvertedCallback(is_sequence_convertible_through_factors, sign_factors,
                           joint_convertible)

RotationCorrection_neither_side_isb(is_sequence_convertible_through_factors, sign_factors, joint_convertible) ==
    LET parent_isb == is_isb_oriented(parent_biomech_sys)
        child_isb == is_isb_oriented(child_biomech_sys)
    IN IF parent_isb /\ child_isb
       THEN IsbOrientedCallback
       ELSE IF ~parent_isb /\ ~child_isb
       THEN ToIsbCallback(is_sequence_convertible_through_factors, sign_factors,
                          joint_convertible)
       ELSE [usable |-> usable_rotation_data, raised |-> UnreachableState,
             callback |-> rotation_correction_callback]

\* body of set_rotation_correction_callback: the attributes it leaves and what it raises
RotationCorrection(is_sequence_convertible_through_factors, sign_factors, joint_convertible) ==
    LET parent_isb == is_isb_oriented(parent_biomech_sys)
        child_isb == is_isb_oriented(child_biomech_sys)
    IN IF parent_isb /\ child_isb
       THEN IsbOrientedCallback
       ELSE IF ~parent_isb \/ ~child_isb
       THEN ToIsbCallback(is_sequence_convertible_through_factors, sign_factors,
                          joint_convertible)
       ELSE [usable |-> usable_rotation_data, raised |-> UnreachableState,
             callback |-> rotation_correction_callback]

\* the derivations are called once the same-orientation check has passed (row_data.py:457-486)
DerivationCalled ==
    /\ ~(is_isb_oriented(parent_biomech_sys) /\ is_isb_oriented(child_biomech_sys))
    /\ check_same_orientation(parent_biomech_sys, child_biomech_sys)

\* what the frame-level derivation and the joint can report; the factors of a
\* failed derivation are never read by the caller and are left out
DerivationResults ==
    {[called |-> TRUE, frame_convertible |-> TRUE, sign_factors |-> f, joint_convertible |-> j] :
        f \in SignFactors, j \in BOOLEAN}
    \cup
    {[called |-> TRUE, frame_convertible |-> FALSE, sign_factors |-> <<>>, joint_convertible |-> j] :
        j \in BOOLEAN}

SetRotationCorrectionCallback ==
    /\ pc = "corrections_checked"
    /\ \E d \in IF DerivationCalled THEN DerivationResults ELSE {NoDerivation} :
          LET out == RotationCorrection(d.frame_convertible, d.sign_factors, d.joint_convertible)
          IN /\ usable_rotation_data' = out.usable
             /\ rotation_correction_callback' = out.callback
             /\ raised' = out.raised
             /\ pc' = IF out.raised = None THEN "callback_set" ELSE "raised"
             /\ derivation' = d
    /\ returned' = <<>>
    /\ UNCHANGED <<row, joint, parent_segment, child_segment, parent_biomech_sys,
                   child_biomech_sys, has_rotation_data, has_translation_data,
                   parent_segment_usable_for_rotation_data,
                   child_segment_usable_for_rotation_data,
                   parent_segment_usable_for_translation_data,
                   child_segment_usable_for_translation_data,
                   parent_definition_risk, child_definition_risk,
                   usable_translation_data>>
    /\ UNCHANGED <<frame_vars, deviation_vars>>

Next ==
    \/ CheckJointValidity
    \/ SetSegments
    \/ CheckSegmentsCorrectionValidity
    \/ SetRotationCorrectionCallback

Spec == Init /\ [][Next]_vars

-----------------------------------------------------------------------------
(* Properties of check_segments_correction_validity *)

\* the segment's correction cell of the row lists the tag
Declares(segment, tag) ==
    LET cell == row.corrections[segment]
    IN /\ ~cell.nan
       /\ \E i \in 1..Len(cell.tokens) : correction_str_to_enum(cell.tokens[i]) = tag

DeclaresKolz(segment) ==
    \/ Declares(segment, SCAPULA_KOLZ_AC_TO_PA_ROTATION)
    \/ Declares(segment, SCAPULA_KOLZ_GLENOID_TO_PA_ROTATION)

DeclaresNothing(segment) == row.corrections[segment].nan

\* check_segments_correction_validity has returned and nothing ran after it
JustChecked == pc = "corrections_checked"

\* check_segments_correction_validity has returned (the per-side flags are final)
Checked == pc \in {"corrections_checked", "callback_set", "raised"}

IsbOrientedOffAxis(bsys) == is_isb_oriented(bsys) /\ ~is_origin_on_an_isb_axis(bsys)
IsbOrientedOnAxis(bsys) == is_isb_oriented(bsys) /\ is_origin_on_an_isb_axis(bsys)
NotOrientedOnAxis(bsys) == ~is_isb_oriented(bsys) /\ is_origin_on_an_isb_axis(bsys)
NotOrientedOffAxis(bsys) == ~is_isb_oriented(bsys) /\ ~is_origin_on_an_isb_axis(bsys)

\* C1: a scapula that is ISB-oriented with its origin off the ISB axes is
\* rotation-usable iff its cell declares one of the two Kolz corrections, as
\* parent and as child alike; a child scapula without Kolz makes
\* usable_rotation_data False.
C1_KolzDecidesOffAxisScapula ==
    JustChecked =>
        /\ (parent_segment = SCAPULA /\ IsbOrientedOffAxis(parent_biomech_sys))
              => parent_segment_usable_for_rotation_data = B(DeclaresKolz(parent_segment))
        /\ (child_segment = SCAPULA /\ IsbOrientedOffAxis(child_biomech_sys))
              => /\ child_segment_usable_for_rotation_data = B(DeclaresKolz(child_segment))
                 /\ ~DeclaresKolz(child_segment) => usable_rotation_data = B(FALSE)

\* the rotation tag required in the cell of a side that is not ISB-oriented
RotationTagOfCell(bsys) ==
    IF is_origin_on_an_isb_axis(bsys) THEN TO_ISB_ROTATION ELSE TO_ISB_LIKE_ROTATION

\* C2: a scapula that is not ISB-oriented is rotation-usable only if its cell
\* declares both the rotation tag of its cell and one of the two Kolz tags.
C2_ScapulaNeedsRotationTagAndKolz ==
    Checked =>
        /\ (parent_segment = SCAPULA /\ ~is_isb_oriented(parent_biomech_sys)
              /\ parent_segment_usable_for_rotation_data = B(TRUE))
              => /\ Declares(parent_segment, RotationTagOfCell(parent_biomech_sys))
                 /\ DeclaresKolz(parent_segment)
        /\ (child_segment = SCAPULA /\ ~is_isb_oriented(child_biomech_sys)
              /\ child_segment_usable_for_rotation_data = B(TRUE))
              => /\ Declares(child_segment, RotationTagOfCell(child_biomech_sys))
                 /\ DeclaresKolz(child_segment)

C4_OffAxisNonScapulaIsUsableWithRisk ==
    Checked =>
        /\ (parent_segment # SCAPULA /\ IsbOrientedOffAxis(parent_biomech_sys))
              => /\ parent_definition_risk = B(TRUE)
                 /\ parent_segment_usable_for_rotation_data = B(TRUE)
        /\ (child_segment # SCAPULA /\ IsbOrientedOffAxis(child_biomech_sys))
              => /\ child_definition_risk = B(TRUE)
                 /\ child_segment_usable_for_rotation_data = B(TRUE)

C4_Witness ==
    /\ JustChecked
    /\ parent_segment # SCAPULA /\ IsbOrientedOffAxis(parent_biomech_sys)
    /\ child_segment # SCAPULA /\ IsbOrientedOffAxis(child_biomech_sys)
    /\ Declares(parent_segment, TO_ISB_ROTATION)
    /\ DeclaresNothing(child_segment)
    /\ parent_definition_risk = B(TRUE) /\ child_definition_risk = B(TRUE)
    /\ usable_rotation_data = B(TRUE)

\* C5: a non-scapula segment that is not ISB-oriented with its origin on an
\* ISB axis is rotation-usable iff its cell declares TO_ISB_ROTATION.
C5_NotOrientedOnAxisNeedsToIsb ==
    Checked =>
        /\ (parent_segment # SCAPULA /\ NotOrientedOnAxis(parent_biomech_sys))
              => parent_segment_usable_for_rotation_data
                    = B(Declares(parent_segment, TO_ISB_ROTATION))
        /\ (child_segment # SCAPULA /\ NotOrientedOnAxis(child_biomech_sys))
              => child_segment_usable_for_rotation_data
                    = B(Declares(child_segment, TO_ISB_ROTATION))

C5_Witness ==
    /\ JustChecked
    /\ parent_segment # SCAPULA /\ NotOrientedOnAxis(parent_biomech_sys)
    /\ child_segment # SCAPULA /\ NotOrientedOnAxis(child_biomech_sys)
    /\ Declares(parent_segment, TO_ISB_ROTATION)
    /\ Declares(child_segment, TO_ISB_LIKE_ROTATION)
    /\ parent_segment_usable_for_rotation_data = B(TRUE)
    /\ child_segment_usable_for_rotation_data = B(FALSE)

\* C6: a non-scapula segment that is not ISB-oriented with its origin off the
\* ISB axes is rotation-usable iff its cell declares TO_ISB_LIKE_ROTATION, and
\* its definition-risk flag is set in every case.
C6_NotOrientedOffAxisNeedsToIsbLike ==
    Checked =>
        /\ (parent_segment # SCAPULA /\ NotOrientedOffAxis(parent_biomech_sys))
              => /\ parent_segment_usable_for_rotation_data
                       = B(Declares(parent_segment, TO_ISB_LIKE_ROTATION))
                 /\ parent_definition_risk = B(TRUE)
        /\ (child_segment # SCAPULA /\ NotOrientedOffAxis(child_biomech_sys))
              => /\ child_segment_usable_for_rotation_data
                       = B(Declares(child_segment, TO_ISB_LIKE_ROTATION))
                 /\ child_definition_risk = B(TRUE)

C6_Witness ==
    /\ JustChecked
    /\ parent_segment # SCAPULA /\ NotOrientedOffAxis(parent_biomech_sys)
    /\ child_segment # SCAPULA /\ NotOrientedOffAxis(child_biomech_sys)
    /\ Declares(parent_segment, TO_ISB_LIKE_ROTATION)
    /\ Declares(child_segment, TO_ISB_ROTATION)
    /\ parent_segment_usable_for_rotation_data = B(TRUE)
    /\ child_segment_usable_for_rotation_data = B(FALSE)
    /\ parent_definition_risk = B(TRUE) /\ child_definition_risk = B(TRUE)

\* C7: check_segments_correction_validity returns
\* (usable_rotation_data, usable_translation_data), each the conjunction of
\* the parent's and the child's flag: one unusable side makes it False.
C7_JointFlagsAreConjunctions ==
    JustChecked =>
        /\ returned = <<usable_rotation_data, usable_translation_data>>
        /\ usable_rotation_data =
              B(/\ parent_segment_usable_for_rotation_data = B(TRUE)
                /\ child_segment_usable_for_rotation_data = B(TRUE))
        /\ usable_translation_data =
              B(/\ parent_segment_usable_for_translation_data = B(TRUE)
                /\ child_segment_usable_for_translation_data = B(TRUE))

C7_Witness ==
    /\ JustChecked
    /\ parent_segment_usable_for_rotation_data = B(TRUE)
    /\ child_segment_usable_for_rotation_data = B(FALSE)
    /\ returned[1] = B(FALSE)

\* C8: usable_translation_data is True only when both coordinate systems are
\* fully ISB, and is False whenever a side's origin is not the ISB origin,
\* whatever usable_rotation_data is.
C8_TranslationNeedsIsbOrigins ==
    JustChecked =>
        /\ usable_translation_data = B(TRUE)
              => is_isb(parent_biomech_sys) /\ is_isb(child_biomech_sys)
        /\ (~is_isb_origin(parent_biomech_sys) \/ ~is_isb_origin(child_biomech_sys))
              => usable_translation_data = B(FALSE)

C8_Witness ==
    /\ JustChecked
    /\ is_isb(parent_biomech_sys)
    /\ ~is_isb_origin(child_biomech_sys)
    /\ usable_rotation_data = B(TRUE)
    /\ usable_translation_data = B(FALSE)

-----------------------------------------------------------------------------
(* Properties of set_rotation_correction_callback *)

\* set_rotation_correction_callback has returned or raised
CallbackResolved == pc \in {"callback_set", "raised"}

BothIsbOriented == is_isb_oriented(parent_biomech_sys) /\ is_isb_oriented(child_biomech_sys)

SameOrientation ==
    /\ parent_biomech_sys.x = child_biomech_sys.x
    /\ parent_biomech_sys.y = child_biomech_sys.y
    /\ parent_biomech_sys.z = child_biomech_sys.z

\* C9: on the to-ISB path, a failed same-orientation check raises the
\* unsupported-conversion error with no callback stored and
\* usable_rotation_data False.
C9_MismatchedOrientationRaises ==
    (CallbackResolved /\ ~BothIsbOriented /\ ~SameOrientation) =>
        /\ pc = "raised"
        /\ raised = UnsupportedConversion
        /\ rotation_correction_callback = NoCallback
        /\ usable_rotation_data = B(FALSE)

C9_Witness ==
    /\ pc = "raised"
    /\ ~is_isb_oriented(parent_biomech_sys) /\ ~is_isb_oriented(child_biomech_sys)
    /\ ~SameOrientation
    /\ raised = UnsupportedConversion
    /\ rotation_correction_callback.kind = "None"

Angles == (0 - MaxAngle)..MaxAngle
AngleTriples == {<<a, b, c>> : a \in Angles, b \in Angles, c \in Angles}

\* the canonical ISB sequence of the row's joint
CanonicalSequence == IF row.joint = GLENO_HUMERAL THEN "YXY" ELSE "YXZ"

\* C10: with both sides ISB-oriented the call never raises; a canonical
\* declared sequence gives the sign-factor callback (1,1,1), the identity on
\* angle triples, and any other gives the sequence-rebuild callback from the
\* declared sequence to the canonical one.
C10_IsbOrientedDispatchOnSequence ==
    (CallbackResolved /\ BothIsbOriented) =>
        /\ pc = "callback_set" /\ raised = None
        /\ joint.euler_sequence = CanonicalSequence
              => /\ rotation_correction_callback.kind = "from_tuple"
                 /\ rotation_correction_callback.factors = <<1, 1, 1>>
                 /\ \A angles \in AngleTriples :
                        ApplyFromTuple(rotation_correction_callback, angles) = angles
        /\ joint.euler_sequence # CanonicalSequence
              => /\ rotation_correction_callback.kind = "from_sequence"
                 /\ rotation_correction_callback.previous_sequence = joint.euler_sequence
                 /\ rotation_correction_callback.new_sequence = CanonicalSequence

C10_Witness ==
    /\ pc = "callback_set"
    /\ BothIsbOriented
    /\ joint.euler_sequence # CanonicalSequence
    /\ rotation_correction_callback.kind = "from_sequence"
    /\ rotation_correction_callback.new_sequence = CanonicalSequence

\* C11: on the to-ISB path with the same-orientation check passed, the
\* sign-factor callback built from the derived factors is chosen iff the joint
\* and the frame-level derivation both report convertibility; otherwise the
\* callback is the full reconstruction over the parent and child systems, from
\* the declared sequence to the canonical one.
C11_SignFactorsIffBothConvertible ==
    (CallbackResolved /\ ~BothIsbOriented /\ SameOrientation) =>
        /\ pc = "callback_set" /\ derivation.called
        /\ rotation_correction_callback.kind = "from_tuple"
              <=> (derivation.joint_convertible /\ derivation.frame_convertible)
        /\ rotation_correction_callback.kind = "from_tuple"
              => rotation_correction_callback.factors = derivation.sign_factors
        /\ rotation_correction_callback.kind # "from_tuple"
              => /\ rotation_correction_callback.kind = "to_isb_with_sequence"
                 /\ rotation_correction_callback.bsys_parent = parent_biomech_sys
                 /\ rotation_correction_callback.bsys_child = child_biomech_sys
                 /\ rotation_correction_callback.previous_sequence = joint.euler_sequence
                 /\ rotation_correction_callback.new_sequence = CanonicalSequence

C11_Witness ==
    /\ pc = "callback_set"
    /\ ~BothIsbOriented /\ SameOrientation
    /\ derivation.frame_convertible /\ ~derivation.joint_convertible
    /\ rotation_correction_callback.kind = "to_isb_with_sequence"

\* the five outcomes of set_rotation_correction_callback, read off what it left
OutcomeStrategy1 ==
    /\ raised = None /\ ~derivation.called
    /\ rotation_correction_callback.kind = "from_tuple"
OutcomeStrategy2 == raised = None /\ rotation_correction_callback.kind = "from_sequence"
OutcomeUnsupported == raised = UnsupportedConversion
OutcomeSignFactors ==
    /\ raised = None /\ derivation.called
    /\ rotation_correction_callback.kind = "from_tuple"
OutcomeFullReconstruction ==
    raised = None /\ rotation_correction_callback.kind = "to_isb_with_sequence"

OutcomesThatOccurred ==
    {i \in 1..5 : \/ i = 1 /\ OutcomeStrategy1
                  \/ i = 2 /\ OutcomeStrategy2
                  \/ i = 3 /\ OutcomeUnsupported
                  \/ i = 4 /\ OutcomeSignFactors
                  \/ i = 5 /\ OutcomeFullReconstruction}

\* C12: the dispatch is exhaustive and exclusive: each classification of the
\* two sides, the sequence, the orientation check and the convertibility gives
\* exactly one of the five outcomes, the one of its case, and the final
\* 'Check conversion not implemented yet' branch is never taken.
C12_DispatchIsExhaustiveAndExclusive ==
    CallbackResolved =>
        /\ raised # UnreachableState
        /\ Cardinality(OutcomesThatOccurred) = 1
        /\ OutcomeStrategy1 <=> (BothIsbOriented /\ joint.euler_sequence = CanonicalSequence)
        /\ OutcomeStrategy2 <=> (BothIsbOriented /\ joint.euler_sequence # CanonicalSequence)
        /\ OutcomeUnsupported <=> (~BothIsbOriented /\ ~SameOrientation)
        /\ OutcomeSignFactors
              <=> (/\ ~BothIsbOriented /\ SameOrientation
                   /\ derivation.joint_convertible /\ derivation.frame_convertible)
        /\ OutcomeFullReconstruction
              <=> (/\ ~BothIsbOriented /\ SameOrientation
                   /\ ~(derivation.joint_convertible /\ derivation.frame_convertible))

C12_Witness ==
    /\ pc = "raised"
    /\ is_isb_oriented(parent_biomech_sys) /\ ~is_isb_oriented(child_biomech_sys)
    /\ OutcomesThatOccurred = {3}

-----------------------------------------------------------------------------
(* frame_reader.py: strings *)

\* Python `sub in s`
Contains(sub, s) ==
    \E i \in 1..(Len(s) - Len(sub) + 1) : SubSeq(s, i, i + Len(sub) - 1) = sub

\* s.split(sep) for a one-character separator
RECURSIVE Split(_, _)
Split(s, sep) ==
    IF ~Contains(sep, s)
    THEN <<s>>
    ELSE LET p == CHOOSE i \in 1..Len(s) :
                      /\ SubSeq(s, i, i) = sep
                      /\ \A j \in 1..(i - 1) : SubSeq(s, j, j) # sep
         IN <<SubSeq(s, 1, p - 1)>> \o Split(SubSeq(s, p + 1, Len(s)), sep)

-----------------------------------------------------------------------------
(* frame_reader.py: vectors *)

\* an exception leaving a call, as the value of the call
Raise(error) == [kind |-> "raise", error |-> error]
Raises(value) == value.kind = "raise"

\* AnatomicalLandmark members used in the rows, by their name in the cells
AnatomicalLandmarks == {"AA", "TS", "AI", "GC", "IJ", "PX", "C7", "T8"}

\* AnatomicalLandmark.from_string: lookup by name
AnatomicalLandmark_from_string(name) ==
    IF name \in AnatomicalLandmarks THEN [kind |-> "landmark", name |-> name]
    ELSE Raise("ValueError")

\* get_constant: position of a landmark in the reference pose, in the ISB
\* global frame (X forward, Y up, Z to the right)
get_constant(landmark) ==
    CASE landmark = "AA" -> <<0, 0, 0>>
      [] landmark = "TS" -> <<0, 0, -4>>
      [] landmark = "AI" -> <<0, -4, -3>>
      [] landmark = "GC" -> <<1, -1, 0>>
      [] landmark = "IJ" -> <<0, 0, 0>>
      [] landmark = "PX" -> <<1, -5, 0>>
      [] landmark = "C7" -> <<-3, 1, 0>>
      [] landmark = "T8" -> <<-4, -5, 0>>

\* AnatomicalLandmark.<Segment>.isb() and .origin_isb()
isb_landmarks(segment) ==
    CASE segment = SCAPULA -> {"AA", "TS", "AI"}
      [] segment = THORAX -> {"IJ", "PX", "C7", "T8"}
      [] segment = CLAVICLE -> {"SC", "AC"}
      [] segment = HUMERUS -> {"GH", "EL", "EM"}

origin_isb(segment) ==
    CASE segment = SCAPULA -> "AA"
      [] segment = THORAX -> "IJ"
      [] segment = CLAVICLE -> "SC"
      [] segment = HUMERUS -> "GH"

\* the two kinds of vector; an axis of a Frame can also hold None
StartEndVector(start, end) == [kind |-> "StartEndVector", start |-> start, end |-> end]
CrossedVector(first_vector, second_vector) ==
    [kind |-> "CrossedVector", vector1 |-> first_vector, vector2 |-> second_vector]
Abs(n) == IF n < 0 THEN -n ELSE n

RECURSIVE GCD(_, _)
GCD(a, b) == IF b = 0 THEN a ELSE GCD(b, a % b)

\* A numpy array of three floats. A unit vector is kept as the shortest integer
\* vector of its direction, so two unit vectors are equal iff these are; an
\* array of NaN is kept apart.
ndarray(v) == [kind |-> "ndarray", nan |-> FALSE, v |-> v]
NaNVector == [kind |-> "ndarray", nan |-> TRUE, v |-> <<0, 0, 0>>]

\* vector / np.linalg.norm(vector): 0/0 is NaN in every component
Normalized(v) ==
    LET g == GCD(GCD(Abs(v[1]), Abs(v[2])), Abs(v[3]))
    IN IF g = 0 THEN NaNVector
       ELSE ndarray(<<v[1] \div g, v[2] \div g, v[3] \div g>>)

\* np.cross
Cross(a, b) ==
    <<a[2] * b[3] - a[3] * b[2], a[3] * b[1] - a[1] * b[3], a[1] * b[2] - a[2] * b[1]>>

\* compute_default_vector of the three kinds; None has no such method
RECURSIVE compute_default_vector(_)
compute_default_vector(vector) ==
    IF vector.kind = "StartEndVector"
    THEN LET e == get_constant(vector.end)
             s == get_constant(vector.start)
         IN Normalized(<<e[1] - s[1], e[2] - s[2], e[3] - s[3]>>)
    ELSE IF vector.kind = "CrossedVector"
    THEN LET v1 == compute_default_vector(vector.vector1)
             v2 == compute_default_vector(vector.vector2)
         IN IF Raises(v1) THEN v1
            ELSE IF Raises(v2) THEN v2
            ELSE IF v1.nan \/ v2.nan THEN NaNVector
            ELSE Normalized(Cross(v1.v, v2.v))
    ELSE Raise("AttributeError")

\* VectorBase.landmarks of the three kinds
RECURSIVE vector_landmarks(_)
vector_landmarks(vector) ==
    IF vector.kind = "StartEndVector" THEN <<vector.start, vector.end>>
    ELSE IF vector.kind = "CrossedVector"
    THEN LET l1 == vector_landmarks(vector.vector1)
             l2 == vector_landmarks(vector.vector2)
         IN IF l1 = <<"AttributeError">> \/ l2 = <<"AttributeError">>
            THEN <<"AttributeError">> ELSE l1 \o l2
    ELSE <<"AttributeError">>

\* CartesianAxis.principal_axis (its members are named by strings): the signed axis of the largest absolute
\* component, the first of X, Y, Z on a tie; indeterminate for NaN
principal_axis(array) ==
    IF array.nan THEN Raise("GeometryError")
    ELSE LET v == array.v
             idx == CHOOSE i \in 1..3 :
                        /\ \A j \in 1..3 : Abs(v[i]) >= Abs(v[j])
                        /\ \A j \in 1..(i - 1) : Abs(v[j]) < Abs(v[i])
         IN [kind |-> "CartesianAxis",
             axis |-> IF v[idx] > 0 THEN <<"plusX", "plusY", "plusZ">>[idx]
                      ELSE <<"minusX", "minusY", "minusZ">>[idx]]

\* VectorBase.principal_direction
principal_direction(vector) ==
    LET array == compute_default_vector(vector)
    IN IF Raises(array) THEN array ELSE principal_axis(array)

-----------------------------------------------------------------------------
(* frame_reader.py: parsing of an axis cell *)

\* parse_start_end_vector: the two names of "vec(XXX>YYY)"
parse_start_end_vector(input) ==
    IF \/ ~(Len(input) >= 4 /\ SubSeq(input, 1, 4) = "vec(")
       \/ ~(Len(input) >= 1 /\ SubSeq(input, Len(input), Len(input)) = ")")
       \/ ~Contains(">", input)
    THEN Raise("ValueError")
    ELSE LET parts == Split(SubSeq(input, 5, Len(input) - 1), ">")
         IN [kind |-> "tuple", start |-> parts[1], end |-> parts[2]]

\* parse_vector, with StartEndVector.from_strings
parse_vector(input) ==
    LET names == parse_start_end_vector(input)
    IN IF Raises(names) THEN names
       ELSE LET start == AnatomicalLandmark_from_string(names.start)
                end == AnatomicalLandmark_from_string(names.end)
            IN IF Raises(start) THEN start
               ELSE IF Raises(end) THEN end
               ELSE StartEndVector(start.name, end.name)

\* parse_crossed_vector: unpacking the split into two names fails unless there
\* is exactly one "^"
parse_crossed_vector(input, side) ==
    LET parts == Split(input, "^")
    IN IF Len(parts) # 2 THEN Raise("ValueError")
       ELSE IF side = "all"
       THEN LET vector1 == parse_vector(parts[1])
                vector2 == parse_vector(parts[2])
            IN IF Raises(vector1) THEN vector1
               ELSE IF Raises(vector2) THEN vector2
               ELSE CrossedVector(vector1, vector2)
       ELSE IF side = "first" THEN parse_vector(parts[1])
       ELSE IF side = "second" THEN parse_vector(parts[2])
       ELSE Raise("ValueError")

\* parse_axis
parse_axis(input_str, side) ==
    IF Contains("^", input_str) THEN parse_crossed_vector(input_str, side)
    ELSE IF side = "first" \/ side = "second" THEN Raise("ValueError")
    ELSE parse_vector(input_str)

-----------------------------------------------------------------------------
(* frame_reader.py: class Frame *)

\* Frame.__init__
Frame(x_axis, y_axis, z_axis, origin, segment) ==
    [kind |-> "Frame", x_axis |-> x_axis, y_axis |-> y_axis, z_axis |-> z_axis,
     origin |-> origin.name, segment |-> segment]

\* a call whose arguments are evaluated in the order a, b, c: the first
\* exception among them leaves the call, otherwise the call has its value
Call(a, b, c, value) ==
    IF Raises(a) THEN a
    ELSE IF Raises(b) THEN b
    ELSE IF Raises(c) THEN c
    ELSE value

from_xy(x_axis, y_axis, origin, segment) ==
    Frame(x_axis, y_axis, CrossedVector(x_axis, y_axis), origin, segment)

from_xz_crossed_as_x_z(x_axis, z_axis, origin, segment) ==
    Frame(x_axis, CrossedVector(x_axis, z_axis), z_axis, origin, segment)

from_xz(x_axis, z_axis, origin, segment) ==
    Frame(x_axis, CrossedVector(z_axis, x_axis), z_axis, origin, segment)

from_yz(y_axis, z_axis, origin, segment) ==
    Frame(CrossedVector(y_axis, z_axis), y_axis, z_axis, origin, segment)

from_z_crossed_twice(y_axis, z_axis, origin, segment) ==
    from_xz(CrossedVector(y_axis, z_axis), z_axis, origin, segment)

from_y_crossed_twice(x_axis, y_axis, origin, segment) ==
    from_yz(y_axis, CrossedVector(x_axis, y_axis), origin, segment)

from_x_crossed_twice(x_axis, z_axis, origin, segment) ==
    from_xy(x_axis, CrossedVector(z_axis, x_axis), origin, segment)

\* Frame.from_once_crossed
from_once_crossed(x_axis, y_axis, z_axis, origin, segment) ==
    LET o == AnatomicalLandmark_from_string(origin)
        x == parse_axis(x_axis, "all")
        y == parse_axis(y_axis, "all")
        z == parse_axis(z_axis, "all")
    IN IF x_axis = "y^z" THEN Call(o, y, z, from_yz(y, z, o, segment))
       ELSE IF y_axis = "z^x" THEN Call(o, x, z, from_xz(x, z, o, segment))
       ELSE IF z_axis = "x^y" THEN Call(o, x, y, from_xy(x, y, o, segment))
       ELSE Raise("ValueError")

\* Frame.from_twice_crossed
from_twice_crossed(x_axis, y_axis, z_axis, origin, segment) ==
    LET o == AnatomicalLandmark_from_string(origin)
        is_x_axis_crossed_twice == Contains("x^", z_axis) /\ Contains("^x", y_axis)
        is_y_axis_crossed_twice == Contains("y^", x_axis) /\ Contains("^y", z_axis)
        is_z_axis_crossed_twice == Contains("z^", y_axis) /\ Contains("^z", x_axis)
    IN IF is_x_axis_crossed_twice
       THEN LET x == parse_axis(x_axis, "all")
                z == parse_axis(y_axis, "first")
            IN Call(x, z, o, from_x_crossed_twice(x, z, o, segment))
       ELSE IF is_y_axis_crossed_twice
       THEN Call(o, o, o, from_y_crossed_twice(PyNone, PyNone, o, segment))
       ELSE IF is_z_axis_crossed_twice
       THEN LET y == parse_axis(x_axis, "first")
                z == parse_axis(z_axis, "all")
            IN Call(y, z, o, from_z_crossed_twice(y, z, o, segment))
       ELSE PyNone

is_one_axis_crossed_twice_any_half(x_axis, y_axis, z_axis) ==
    \/ Contains("x^", z_axis) \/ Contains("^x", y_axis)
    \/ Contains("y^", x_axis) \/ Contains("^y", z_axis)
    \/ Contains("z^", y_axis) \/ Contains("^z", x_axis)

\* Frame.is_one_axis_crossed_twice
is_one_axis_crossed_twice(x_axis, y_axis, z_axis) ==
    \/ Contains("x^", z_axis) /\ Contains("^x", y_axis)
    \/ Contains("y^", x_axis) /\ Contains("^y", z_axis)
    \/ Contains("z^", y_axis) /\ Contains("^z", x_axis)

\* Frame.from_xyz_string
from_xyz_string(x_axis, y_axis, z_axis, origin, segment) ==
    IF is_one_axis_crossed_twice(x_axis, y_axis, z_axis)
    THEN from_twice_crossed(x_axis, y_axis, z_axis, origin, segment)
    ELSE from_once_crossed(x_axis, y_axis, z_axis, origin, segment)

\* Frame.axes
axes(f) == <<f.x_axis, f.y_axis, f.z_axis>>

\* tuple(dict.fromkeys(seq)): the first occurrence of each element, in order
RECURSIVE Deduplicated(_)
Deduplicated(seq) ==
    IF seq = <<>> THEN <<>>
    ELSE LET front == Deduplicated(SubSeq(seq, 1, Len(seq) - 1))
             last == seq[Len(seq)]
         IN IF \E i \in 1..Len(front) : front[i] = last THEN front
            ELSE Append(front, last)

\* Frame.landmarks
Frame_landmarks(f) ==
    Deduplicated(vector_landmarks(f.x_axis) \o vector_landmarks(f.y_axis)
                     \o vector_landmarks(f.z_axis))

\* Frame.has_isb_landmarks
has_isb_landmarks(f) ==
    {Frame_landmarks(f)[i] : i \in 1..Len(Frame_landmarks(f))} = isb_landmarks(f.segment)

\* Frame.is_origin_isb
is_origin_isb(f) == f.origin = origin_isb(f.segment)

\* Frame.is_x_axis_postero_anterior, is_y_axis_supero_inferior, is_z_axis_medio_lateral
is_x_axis_postero_anterior(f) == principal_direction(f.x_axis).axis = "plusX"
is_y_axis_supero_inferior(f) == principal_direction(f.y_axis).axis = "plusY"
is_z_axis_medio_lateral(f) == principal_direction(f.z_axis).axis = "plusZ"

Frame_is_isb_without_origin(f) ==
    /\ has_isb_landmarks(f)
    /\ is_x_axis_postero_anterior(f)
    /\ is_y_axis_supero_inferior(f)
    /\ is_z_axis_medio_lateral(f)

\* Frame.is_isb
Frame_is_isb(f) ==
    /\ has_isb_landmarks(f)
    /\ is_x_axis_postero_anterior(f)
    /\ is_y_axis_supero_inferior(f)
    /\ is_z_axis_medio_lateral(f)
    /\ is_origin_isb(f)

\* `for axis in self.axes: if axis.principal_direction() in (a, b): return
\* axis.principal_direction()`, None when the loop ends
first_principal_direction_in(f, a, b) ==
    LET hits == {i \in 1..3 : principal_direction(axes(f)[i]).axis \in {a, b}}
    IN IF hits = {} THEN None
       ELSE principal_direction(axes(f)[CHOOSE i \in hits : \A j \in hits : i <= j]).axis

\* Frame.postero_anterior_local_axis
postero_anterior_local_axis(f) == first_principal_direction_in(f, "plusX", "minusX")

infero_superior_local_axis_on_z(f) == first_principal_direction_in(f, "plusZ", "minusZ")

\* Frame.infero_superior_local_axis
infero_superior_local_axis(f) == first_principal_direction_in(f, "plusY", "minusY")

\* Frame.medio_lateral_local_axis
medio_lateral_local_axis(f) == first_principal_direction_in(f, "plusZ", "minusZ")

\* BiomechCoordinateSystem.from_frame: the classification wrapper of a frame
from_frame(f) ==
    [anterior_posterior_axis |-> postero_anterior_local_axis(f),
     infero_superior_axis |-> infero_superior_local_axis(f),
     medio_lateral_axis |-> medio_lateral_local_axis(f),
     origin |-> f.origin, segment |-> f.segment]

\* The determinant of the matrix whose rows are the unit vectors of three
\* arrays, when it is +1 or -1, else 0. With rows a, b, c kept as integer
\* directions it is det(a, b, c) / (|a| |b| |c|), of absolute value 1 exactly
\* when the rows are mutually orthogonal.
UnitDeterminant(arrays) ==
    IF \E i \in 1..3 : arrays[i].nan THEN 0
    ELSE LET m == <<arrays[1].v, arrays[2].v, arrays[3].v>>
             d == m[1][1] * (m[2][2] * m[3][3] - m[2][3] * m[3][2])
                    - m[1][2] * (m[2][1] * m[3][3] - m[2][3] * m[3][1])
                    + m[1][3] * (m[2][1] * m[3][2] - m[2][2] * m[3][1])
             SquaredNorm(v) == v[1] * v[1] + v[2] * v[2] + v[3] * v[3]
         IN IF d * d # SquaredNorm(m[1]) * SquaredNorm(m[2]) * SquaredNorm(m[3]) THEN 0
            ELSE IF d > 0 THEN 1 ELSE -1

\* BiomechCoordinateSystem.is_direct, on the default vectors of the axes
is_direct(arrays) == UnitDeterminant(arrays) = 1

-----------------------------------------------------------------------------
(* Frames *)

\* cells of the x, y, z columns of a segment
AxisCells ==
    {"vec(TS>AA)", "vec(AA>TS)", "vec(AI>AA)", "vec(AA>GC)", "vec(AA>AA)",
     "vec(TS>AA)^vec(TS>AI)", "vec(TS>AI)^vec(TS>AA)",
     "y^z", "z^x", "x^y",
     "vec(TS>AA)^x", "vec(AI>AA)^z", "vec(AA>GC)^y",
     "TS>AA", "vec(TS>AA)^vec(TS>AI)^vec(AI>AA)", "vec(TS>XX)", "vec(TS>AA>AI)"}

\* vectors handed to from_xy, from_xz and from_yz directly
AxisVectors ==
    LET simple == {StartEndVector(a, b) : a, b \in {"AA", "TS", "GC"}}
        crossed == {CrossedVector(u, w) : u, w \in {StartEndVector("TS", "AA"),
                                                      StartEndVector("TS", "AI"),
                                                      StartEndVector("AA", "GC")}}
    IN simple \cup crossed

Descriptors ==
    {[kind |-> "strings", x_axis |-> x, y_axis |-> y, z_axis |-> z,
      origin |-> o, segment |-> g] :
         x \in AxisCells, y \in AxisCells, z \in AxisCells,
         o \in {"AA", "TS", "XX"}, g \in {SCAPULA, THORAX}}
    \cup
    {[kind |-> c, first |-> u, second |-> w, origin |-> "AA", segment |-> SCAPULA] :
         c \in {"from_xy", "from_xz", "from_yz"}, u \in AxisVectors, w \in AxisVectors}

\* no RowData exists while a frame is built on its own
RowDataAbsent ==
    /\ row = PyNone
    /\ joint = NoJoint
    /\ parent_segment = None
    /\ child_segment = None
    /\ parent_biomech_sys = NoSys
    /\ child_biomech_sys = NoSys
    /\ has_rotation_data = None
    /\ has_translation_data = None
    /\ parent_segment_usable_for_rotation_data = None
    /\ child_segment_usable_for_rotation_data = None
    /\ parent_segment_usable_for_translation_data = None
    /\ child_segment_usable_for_translation_data = None
    /\ parent_definition_risk = None
    /\ child_definition_risk = None
    /\ usable_rotation_data = None
    /\ usable_translation_data = None
    /\ rotation_correction_callback = NoCallback
    /\ derivation = NoDerivation

FrameInit ==
    /\ RowDataAbsent
    /\ pc = "descriptor_given"
    /\ returned = <<>>
    /\ raised = None
    /\ descriptor \in Descriptors
    /\ frame = NoFrame
    /\ default_vectors = <<>>
    /\ properties = PyNone
    /\ deviation = <<>>
    /\ total_deviation = None

\* the end of a constructor call: a Frame (or None) is returned, or an
\* exception leaves it
Built(result) ==
    /\ IF Raises(result)
       THEN /\ frame' = frame
            /\ raised' = result.error
            /\ pc' = "raised"
       ELSE /\ frame' = result
            /\ raised' = None
            /\ pc' = "frame_built"
    /\ UNCHANGED <<row_vars, returned, descriptor, default_vectors, properties, deviation_vars>>

FromXyzString ==
    /\ pc = "descriptor_given"
    /\ descriptor.kind = "strings"
    /\ Built(from_xyz_string(descriptor.x_axis, descriptor.y_axis, descriptor.z_axis,
                             descriptor.origin, descriptor.segment))

FromXY ==
    /\ pc = "descriptor_given"
    /\ descriptor.kind = "from_xy"
    /\ Built(from_xy(descriptor.first, descriptor.second,
                     AnatomicalLandmark_from_string(descriptor.origin), descriptor.segment))

FromXZ ==
    /\ pc = "descriptor_given"
    /\ descriptor.kind = "from_xz"
    /\ Built(from_xz(descriptor.first, descriptor.second,
                     AnatomicalLandmark_from_string(descriptor.origin), descriptor.segment))

FromYZ ==
    /\ pc = "descriptor_given"
    /\ descriptor.kind = "from_yz"
    /\ Built(from_yz(descriptor.first, descriptor.second,
                     AnatomicalLandmark_from_string(descriptor.origin), descriptor.segment))

\* compute_default_vector() of the three axes of the frame, x first
ComputeDefaultVectors ==
    /\ pc = "frame_built"
    /\ LET arrays == IF frame.kind = "Frame"
                     THEN [i \in 1..3 |-> compute_default_vector(axes(frame)[i])]
                     ELSE [i \in 1..3 |-> Raise("AttributeError")]
       IN IF \E i \in 1..3 : Raises(arrays[i])
          THEN /\ default_vectors' = default_vectors
               /\ raised' = arrays[CHOOSE i \in 1..3 : /\ Raises(arrays[i])
                                                       /\ \A j \in 1..(i - 1) : ~Raises(arrays[j])].error
               /\ pc' = "raised"
          ELSE /\ default_vectors' = arrays
               /\ raised' = None
               /\ pc' = "vectors_computed"
    /\ UNCHANGED <<row_vars, returned, descriptor, frame, properties, deviation_vars>>

\* every property of the frame is read, and the coordinate system is built from it
ReadProperties ==
    /\ pc = "vectors_computed"
    /\ IF \E i \in 1..3 : Raises(principal_direction(axes(frame)[i]))
       THEN /\ properties' = properties
            /\ raised' = "GeometryError"
            /\ pc' = "raised"
       ELSE /\ properties' =
                  [kind |-> "properties",
                   landmarks |-> Frame_landmarks(frame),
                   principal_directions |->
                       [i \in 1..3 |-> principal_direction(axes(frame)[i]).axis],
                   has_isb_landmarks |-> has_isb_landmarks(frame),
                   is_x_axis_postero_anterior |-> is_x_axis_postero_anterior(frame),
                   is_y_axis_supero_inferior |-> is_y_axis_supero_inferior(frame),
                   is_z_axis_medio_lateral |-> is_z_axis_medio_lateral(frame),
                   is_origin_isb |-> is_origin_isb(frame),
                   is_isb |-> Frame_is_isb(frame),
                   postero_anterior_local_axis |-> postero_anterior_local_axis(frame),
                   infero_superior_local_axis |-> infero_superior_local_axis(frame),
                   medio_lateral_local_axis |-> medio_lateral_local_axis(frame),
                   bsys |-> from_frame(frame),
                   is_direct |-> is_direct(default_vectors)]
            /\ raised' = None
            /\ pc' = "properties_read"
    /\ UNCHANGED <<row_vars, returned, descriptor, frame, default_vectors, deviation_vars>>

FrameNext ==
    \/ FromXyzString
    \/ FromXY
    \/ FromXZ
    \/ FromYZ
    \/ ComputeDefaultVectors
    \/ ReadProperties

FrameSpec == FrameInit /\ [][FrameNext]_vars

-----------------------------------------------------------------------------
(* Properties of Frame *)

\* Frame.from_xyz_string was called on the cells of the descriptor and is over
Parsed == descriptor.kind = "strings" /\ pc # "descriptor_given"

\* it returned (a Frame or None) rather than raised
Returned == frame # NoFrame

XPattern == Contains("x^", descriptor.z_axis) /\ Contains("^x", descriptor.y_axis)
YPattern == Contains("y^", descriptor.x_axis) /\ Contains("^y", descriptor.z_axis)
ZPattern == Contains("z^", descriptor.y_axis) /\ Contains("^z", descriptor.x_axis)

\* the axes of a frame as the twice-crossed constructors leave them
XCrossedTwiceShape ==
    /\ frame.y_axis.kind = "CrossedVector"
    /\ frame.y_axis.vector2 = frame.x_axis
    /\ frame.z_axis = CrossedVector(frame.x_axis, frame.y_axis)
YCrossedTwiceShape ==
    /\ frame.z_axis.kind = "CrossedVector"
    /\ frame.z_axis.vector2 = frame.y_axis
    /\ frame.x_axis = CrossedVector(frame.y_axis, frame.z_axis)
ZCrossedTwiceShape ==
    /\ frame.x_axis.kind = "CrossedVector"
    /\ frame.x_axis.vector2 = frame.z_axis
    /\ frame.y_axis = CrossedVector(frame.z_axis, frame.x_axis)

\* the axes of a frame as from_yz, from_xz, from_xy leave them, the two given
\* axes being the whole cells parsed
OnceCrossedShape ==
    IF descriptor.x_axis = "y^z"
    THEN /\ frame.y_axis = parse_axis(descriptor.y_axis, "all")
         /\ frame.z_axis = parse_axis(descriptor.z_axis, "all")
         /\ frame.x_axis = CrossedVector(frame.y_axis, frame.z_axis)
    ELSE IF descriptor.y_axis = "z^x"
    THEN /\ frame.x_axis = parse_axis(descriptor.x_axis, "all")
         /\ frame.z_axis = parse_axis(descriptor.z_axis, "all")
         /\ frame.y_axis = CrossedVector(frame.z_axis, frame.x_axis)
    ELSE /\ frame.x_axis = parse_axis(descriptor.x_axis, "all")
         /\ frame.y_axis = parse_axis(descriptor.y_axis, "all")
         /\ frame.z_axis = CrossedVector(frame.x_axis, frame.y_axis)

\* C14: from_xyz_string never returns None; on one of the three twice-crossed
\* patterns what it returns was built by the twice-crossed constructor of the
\* first pattern that matches; otherwise it returns a once-crossed frame only
\* if x is 'y^z', or y is 'z^x', or z is 'x^y', tried in that order, and
\* raises for every other combination.
C14_FromXyzStringAcceptsSupportedPatternsOnly ==
    Parsed =>
        /\ frame.kind # "None"
        /\ ~Returned => pc = "raised" /\ raised # None
        /\ IF XPattern THEN Returned => XCrossedTwiceShape
           ELSE IF YPattern THEN Returned => YCrossedTwiceShape
           ELSE IF ZPattern THEN Returned => ZCrossedTwiceShape
           ELSE IF \/ descriptor.x_axis = "y^z"
                   \/ descriptor.y_axis = "z^x"
                   \/ descriptor.z_axis = "x^y"
           THEN Returned => OnceCrossedShape
           ELSE ~Returned /\ raised = "ValueError"

C14_Witness ==
    /\ Parsed /\ pc = "frame_built"
    /\ ~XPattern /\ ~YPattern /\ ~ZPattern
    /\ descriptor.x_axis # "y^z" /\ descriptor.y_axis = "z^x"
    /\ frame.kind = "Frame"
    /\ frame.y_axis = CrossedVector(frame.z_axis, frame.x_axis)

RECURSIVE HasNone(_)
HasNone(vector) ==
    \/ vector.kind = "None"
    \/ /\ vector.kind = "CrossedVector"
       /\ HasNone(vector.vector1) \/ HasNone(vector.vector2)

\* C15: on the 'y axis crossed twice' pattern (the x pattern not matching)
\* from_xyz_string raises, and no frame it returns has None for an axis or
\* under a cross product.
C15_YCrossedTwiceRaises ==
    Parsed =>
        /\ (YPattern /\ ~XPattern) => (~Returned /\ pc = "raised")
        /\ frame.kind = "Frame" => \A i \in 1..3 : ~HasNone(axes(frame)[i])

PropertiesRead == pc = "properties_read"

RECURSIVE LandmarkSet(_)
LandmarkSet(vector) ==
    IF vector.kind = "StartEndVector" THEN {vector.start, vector.end}
    ELSE LandmarkSet(vector.vector1) \cup LandmarkSet(vector.vector2)

\* C16: is_isb is the conjunction of its five components; each axis check
\* holds iff the axis's principal direction is +X, +Y, +Z; has_isb_landmarks
\* holds iff the landmarks of the three axes, without repetition, are as a set
\* the ISB landmarks of the segment.
C16_IsIsbIsTheConjunctionOfFiveChecks ==
    PropertiesRead =>
        /\ properties.is_isb <=> (/\ properties.has_isb_landmarks
                                  /\ properties.is_x_axis_postero_anterior
                                  /\ properties.is_y_axis_supero_inferior
                                  /\ properties.is_z_axis_medio_lateral
                                  /\ properties.is_origin_isb)
        /\ properties.is_x_axis_postero_anterior
              <=> principal_axis(default_vectors[1]).axis = "plusX"
        /\ properties.is_y_axis_supero_inferior
              <=> principal_axis(default_vectors[2]).axis = "plusY"
        /\ properties.is_z_axis_medio_lateral
              <=> principal_axis(default_vectors[3]).axis = "plusZ"
        /\ properties.is_origin_isb <=> frame.origin = origin_isb(frame.segment)
        /\ \A i, j \in 1..Len(properties.landmarks) :
              properties.landmarks[i] = properties.landmarks[j] => i = j
        /\ {properties.landmarks[i] : i \in 1..Len(properties.landmarks)}
              = UNION {LandmarkSet(axes(frame)[i]) : i \in 1..3}
        /\ properties.has_isb_landmarks
              <=> UNION {LandmarkSet(axes(frame)[i]) : i \in 1..3} = isb_landmarks(frame.segment)

\* four components hold and the origin alone is not the ISB one
C16_Witness ==
    /\ PropertiesRead
    /\ properties.has_isb_landmarks
    /\ properties.is_x_axis_postero_anterior
    /\ properties.is_y_axis_supero_inferior
    /\ properties.is_z_axis_medio_lateral
    /\ ~properties.is_origin_isb
    /\ ~properties.is_isb

\* from_xy, from_xz or from_yz was called on two orthogonal unit vectors, and
\* the default vectors of the frame it returned are known
BuiltFromOrthogonalAxes ==
    /\ descriptor.kind \in {"from_xy", "from_xz", "from_yz"}
    /\ pc \in {"vectors_computed", "properties_read"}
    /\ LET a == compute_default_vector(descriptor.first)
           b == compute_default_vector(descriptor.second)
       IN /\ ~a.nan /\ ~b.nan
          /\ a.v[1] * b.v[1] + a.v[2] * b.v[2] + a.v[3] * b.v[3] = 0

\* the derived axis is the cross product of the other two in cyclic order
DerivedInCyclicOrder ==
    LET d == default_vectors
    IN CASE descriptor.kind = "from_xy" -> d[3] = Normalized(Cross(d[1].v, d[2].v))
         [] descriptor.kind = "from_xz" -> d[2] = Normalized(Cross(d[3].v, d[1].v))
         [] descriptor.kind = "from_yz" -> d[1] = Normalized(Cross(d[2].v, d[3].v))

\* C17: a frame built by from_xy, from_xz or from_yz from two orthogonal unit
\* axes has its third axis derived in right-handed cyclic order and
\* determinant +1, so it is direct; with any two of its axes swapped the
\* determinant is -1 and it is not direct.
C17_TwoOrthogonalAxesGiveADirectFrame ==
    BuiltFromOrthogonalAxes =>
        LET d == default_vectors
        IN /\ DerivedInCyclicOrder
           /\ UnitDeterminant(d) = 1
           /\ PropertiesRead => properties.is_direct
           /\ \A swapped \in {<<d[2], d[1], d[3]>>, <<d[3], d[2], d[1]>>, <<d[1], d[3], d[2]>>} :
                 UnitDeterminant(swapped) = -1 /\ ~is_direct(swapped)

C17_Witness ==
    /\ BuiltFromOrthogonalAxes
    /\ PropertiesRead
    /\ descriptor.kind = "from_xz"
    /\ descriptor.first = StartEndVector("AA", "GC")
    /\ properties.is_direct

\* C19: compute_default_vector never returns an array of NaN: a vector of
\* zero norm (a StartEndVector between two landmarks at the same place, a
\* CrossedVector of two parallel vectors) makes it raise.
C19_DegenerateVectorRaises ==
    pc \in {"vectors_computed", "properties_read"} =>
        \A i \in 1..3 : ~default_vectors[i].nan

\* the first axis, in x, y, z order, whose principal direction is one of two
FirstAxisAlong(a, b) ==
    CHOOSE i \in 1..3 :
        /\ properties.principal_directions[i] \in {a, b}
        /\ \A j \in 1..(i - 1) : properties.principal_directions[j] \notin {a, b}

SomeAxisAlong(a, b) == \E i \in 1..3 : properties.principal_directions[i] \in {a, b}

-----------------------------------------------------------------------------
(* Deviation columns *)

\* the deviation columns of a row, in the order of the dataset
deviation_cols ==
    <<"parent_d1", "parent_d2", "parent_d3", "parent_d4",
      "child_d1", "child_d2", "child_d3", "child_d4", "d5", "d6", "d7">>

\* A decimal number mantissa * 10^(-exponent), the mantissa without trailing
\* zero: the factors and their products are exact in this form.
RECURSIVE Decimal(_, _)
Decimal(mantissa, exponent) ==
    IF mantissa # 0 /\ mantissa % 10 = 0 /\ exponent > 0
    THEN Decimal(mantissa \div 10, exponent - 1)
    ELSE [mantissa |-> mantissa, exponent |-> exponent]

\* the values a deviation column takes: 0.5, 0.9 and 1.0
DeviationValues == {Decimal(5, 1), Decimal(9, 1), Decimal(1, 0)}

\* at most this many columns of a row are below 1
MaxLowered == 5

DeviationRows ==
    {d \in [1..Len(deviation_cols) -> DeviationValues] :
        Cardinality({i \in DOMAIN d : d[i] # Decimal(1, 0)}) <= MaxLowered}

RECURSIVE Product(_)
Product(factors) ==
    IF factors = <<>> THEN Decimal(1, 0)
    ELSE LET a == Product(SubSeq(factors, 1, Len(factors) - 1))
             b == factors[Len(factors)]
         IN Decimal(a.mantissa * b.mantissa, a.exponent + b.exponent)

total_deviation_of_segment_columns(factors) == Product(SubSeq(factors, 1, 8))

\* the total_deviation column of a row: the product of its deviation columns
total_deviation_of(factors) == Product(factors)

DeviationInit ==
    /\ RowDataAbsent
    /\ pc = "deviation_given"
    /\ returned = <<>>
    /\ raised = None
    /\ descriptor = PyNone
    /\ frame = NoFrame
    /\ default_vectors = <<>>
    /\ properties = PyNone
    /\ deviation \in DeviationRows
    /\ total_deviation = None

\* the total_deviation column is filled from the eleven others
ComputeTotalDeviation ==
    /\ pc = "deviation_given"
    /\ total_deviation' = total_deviation_of(deviation)
    /\ pc' = "deviation_computed"
    /\ UNCHANGED <<row_vars, returned, raised, frame_vars, deviation>>

DeviationSpec == DeviationInit /\ [][ComputeTotalDeviation]_vars

-----------------------------------------------------------------------------
(* Properties of the deviation columns *)

\* the sternoclavicular row of Begon et al. in tests/test_deviation.py
SternoclavicularOfBegon ==
    <<Decimal(9, 1), Decimal(1, 0), Decimal(5, 1), Decimal(1, 0),
      Decimal(9, 1), Decimal(1, 0), Decimal(5, 1), Decimal(1, 0),
      Decimal(1, 0), Decimal(1, 0), Decimal(1, 0)>>

\* that row with one of its factors 1 replaced by 0.9
OneMoreLowered ==
    \E i \in 1..Len(deviation_cols) :
        /\ SternoclavicularOfBegon[i] = Decimal(1, 0)
        /\ deviation = [SternoclavicularOfBegon EXCEPT ![i] = Decimal(9, 1)]

RECURSIVE Power(_, _)
Power(base, n) == IF n = 0 THEN 1 ELSE base * Power(base, n - 1)

CountOf(value) == Cardinality({i \in DOMAIN deviation : deviation[i] = value})

\* C18: total_deviation is the product of the eleven deviation factors: with k
\* factors 0.9, j factors 0.5 and the others 1 it is 0.9^k * 0.5^j; the
\* sternoclavicular row of Begon et al. gives 0.2025, and the same row with
\* one factor 1 replaced by 0.9 gives 0.18225.
C18_TotalDeviationIsTheProduct ==
    pc = "deviation_computed" =>
        /\ total_deviation
              = Decimal(Power(9, CountOf(Decimal(9, 1))) * Power(5, CountOf(Decimal(5, 1))),
                        CountOf(Decimal(9, 1)) + CountOf(Decimal(5, 1)))
        /\ deviation = SternoclavicularOfBegon => total_deviation = Decimal(2025, 4)
        /\ OneMoreLowered => total_deviation = Decimal(18225, 5)

C18_Witness ==
    /\ pc = "deviation_computed"
    /\ OneMoreLowered
    /\ deviation[8] = Decimal(9, 1)
    /\ total_deviation = Decimal(18225, 5)

-----------------------------------------------------------------------------
(* Properties of the usability flags across the calls *)

\* C25: a rotation verdict of unusable survives callback resolution: no call
\* takes usable_rotation_data from False to True, so a row that
\* check_segments_correction_validity found unusable stays unusable after
\* set_rotation_correction_callback.
C25_UnusableVerdictSurvivesCallback ==
    [][usable_rotation_data = B(FALSE) => usable_rotation_data' # B(TRUE)]_vars

\* the definition-risk flag a side is left with, by the cell its system is in
RiskOfCell(bsys, segment) ==
    IF \/ IsbOrientedOffAxis(bsys) /\ segment # SCAPULA
       \/ NotOrientedOffAxis(bsys)
    THEN B(TRUE) ELSE None

\* C26: once check_segments_correction_validity has returned, the four
\* per-side flags and the two joint-level flags are True or False, never None,
\* and a side's definition-risk flag is True exactly in the cells
\* 'ISB-oriented, origin off axis, not the scapula' and 'not ISB-oriented,
\* origin off axis', and None in every other cell.
C26_FlagsAreDefiniteAfterTheCheck ==
    Checked =>
        /\ \A flag \in {parent_segment_usable_for_rotation_data,
                        child_segment_usable_for_rotation_data,
                        parent_segment_usable_for_translation_data,
                        child_segment_usable_for_translation_data,
                        usable_rotation_data, usable_translation_data} :
              flag \in {B(TRUE), B(FALSE)}
        /\ parent_definition_risk = RiskOfCell(parent_biomech_sys, parent_segment)
        /\ child_definition_risk = RiskOfCell(child_biomech_sys, child_segment)

\* the parent is ISB-oriented on an ISB axis without being fully ISB, the
\* child is not ISB-oriented and off the axes
C26_Witness ==
    /\ JustChecked
    /\ IsbOrientedOnAxis(parent_biomech_sys) /\ ~is_isb(parent_biomech_sys)
    /\ NotOrientedOffAxis(child_biomech_sys)
    /\ parent_segment_usable_for_translation_data = B(FALSE)
    /\ parent_definition_risk = None
    /\ child_definition_risk = B(TRUE)

\* C27: when both coordinate systems are fully ISB and neither segment
\* declares a correction, check_segments_correction_validity returns
\* (True, True).
C27_FullyIsbWithoutCorrectionIsUsable ==
    (/\ JustChecked
     /\ is_isb(parent_biomech_sys) /\ is_isb(child_biomech_sys)
     /\ DeclaresNothing(parent_segment) /\ DeclaresNothing(child_segment))
        => returned = <<B(TRUE), B(TRUE)>>

-----------------------------------------------------------------------------
(* RowData: validity of the segments and of the joint *)

\* check_is_isb_segment: the is_isb label the row declares for the segment is
\* the classification of the coordinate system built from its columns
check_is_isb_segment(r, bsys) == r.is_isb[bsys.segment] = is_isb(bsys)

RECURSIVE check_all_segments_validity_of_last_segment(_, _)
check_all_segments_validity_of_last_segment(r, n) ==
    IF n = 0 THEN TRUE
    ELSE LET output == check_all_segments_validity_of_last_segment(r, n - 1)
             segment_enum == <<THORAX, CLAVICLE, SCAPULA, HUMERUS>>[n]
             bsys == SegmentSystem(r, segment_enum)
             array(d) == ndarray(CASE d = "PlusPosteroAnterior" -> <<1, 0, 0>>
                                   [] d = "MinusPosteroAnterior" -> <<-1, 0, 0>>
                                   [] d = "PlusInferoSuperior" -> <<0, 1, 0>>
                                   [] d = "MinusInferoSuperior" -> <<0, -1, 0>>
                                   [] d = "PlusMedioLateral" -> <<0, 0, 1>>
                                   [] d = "MinusMedioLateral" -> <<0, 0, -1>>)
         IN IF check_segment_filled_with_nan(r, get_segment_columns(r, segment_enum))
            THEN output
            ELSE check_is_isb_segment(r, bsys)
                    /\ is_direct(<<array(bsys.x), array(bsys.y), array(bsys.z)>>)

\* check_all_segments_validity: `output` after the first n members of Segment
\* have gone through the loop
RECURSIVE check_all_segments_validity(_, _)
check_all_segments_validity(r, n) ==
    IF n = 0 THEN TRUE
    ELSE LET output == check_all_segments_validity(r, n - 1)
             segment_enum == <<THORAX, CLAVICLE, SCAPULA, HUMERUS>>[n]
             bsys == SegmentSystem(r, segment_enum)
             array(d) == ndarray(CASE d = "PlusPosteroAnterior" -> <<1, 0, 0>>
                                   [] d = "MinusPosteroAnterior" -> <<-1, 0, 0>>
                                   [] d = "PlusInferoSuperior" -> <<0, 1, 0>>
                                   [] d = "MinusInferoSuperior" -> <<0, -1, 0>>
                                   [] d = "PlusMedioLateral" -> <<0, 0, 1>>
                                   [] d = "MinusMedioLateral" -> <<0, 0, -1>>)
         IN IF check_segment_filled_with_nan(r, get_segment_columns(r, segment_enum))
            THEN output
            ELSE IF ~check_is_isb_segment(r, bsys) THEN FALSE
            ELSE IF ~is_direct(<<array(bsys.x), array(bsys.y), array(bsys.z)>>) THEN FALSE
            ELSE output

\* rows as they come from the dataset, before any check: each segment's
\* columns are empty, or hold a coordinate system and its is_isb label; the
\* joint may name its segments the wrong way round and may lack its Euler
\* sequence or either translation column
ValidityRows ==
    LET Mirrored == <<"+posteroanterior", "+inferosuperior", "-mediolateral">>
        SegmentCells ==
            {[columns |-> NaNSegment, is_isb |-> FALSE],
             [columns |-> IsbDirections \o <<"isb_origin">>, is_isb |-> TRUE],
             [columns |-> IsbDirections \o <<"isb_origin">>, is_isb |-> FALSE],
             [columns |-> TurnedDirections \o <<"isb_origin">>, is_isb |-> FALSE],
             [columns |-> Mirrored \o <<"on_isb_axis">>, is_isb |-> FALSE]}
    IN {[joint |-> j,
         parent |-> IF swapped THEN joint_child(j) ELSE joint_parent(j),
         child |-> IF swapped THEN joint_parent(j) ELSE joint_child(j),
         euler_sequence |-> q,
         origin_displacement |-> t[1],
         displacement_cs |-> t[2],
         segments |-> [sg \in Segment |-> cells[sg].columns],
         corrections |-> [sg \in Segment |-> NaNCell],
         is_isb |-> [sg \in Segment |-> cells[sg].is_isb]] :
            j \in {GLENO_HUMERAL, STERNO_CLAVICULAR}, swapped \in BOOLEAN,
            q \in {NaN, "yxz"},
            t \in {<<NaN, NaN>>, <<"isb_origin", NaN>>, <<"isb_origin", THORAX>>},
            cells \in [Segment -> SegmentCells]}

\* RowData.__init__ on such a row
ValidityInit ==
    /\ row \in ValidityRows
    /\ pc = "created"
    /\ joint = NoJoint
    /\ parent_segment = row.parent
    /\ child_segment = row.child
    /\ parent_biomech_sys = NoSys
    /\ child_biomech_sys = NoSys
    /\ has_rotation_data = None
    /\ has_translation_data = None
    /\ parent_segment_usable_for_rotation_data = None
    /\ child_segment_usable_for_rotation_data = None
    /\ parent_segment_usable_for_translation_data = None
    /\ child_segment_usable_for_translation_data = None
    /\ parent_definition_risk = None
    /\ child_definition_risk = None
    /\ usable_rotation_data = None
    /\ usable_translation_data = None
    /\ rotation_correction_callback = NoCallback
    /\ returned = <<>>
    /\ raised = None
    /\ derivation = NoDerivation
    /\ descriptor = PyNone
    /\ frame = NoFrame
    /\ default_vectors = <<>>
    /\ properties = PyNone
    /\ deviation = <<>>
    /\ total_deviation = None

CheckAllSegmentsValidity ==
    /\ pc = "created"
    /\ returned' = <<B(check_all_segments_validity(row, 4))>>
    /\ UNCHANGED <<row_vars, pc, raised, frame_vars, deviation_vars>>

ValidityNext ==
    \/ CheckAllSegmentsValidity
    \/ CheckJointValidity

ValiditySpec == ValidityInit /\ [][ValidityNext]_vars

-----------------------------------------------------------------------------
(* Properties of the validity checks *)

\* the segment's columns hold a coordinate system
Filled(segment) == \A i \in 1..4 : row.segments[segment][i] # NaN

\* the determinant of a triple of direction cells: the product of their signs
\* and of the sign of the permutation of the three anatomical axes they name
DirectDirections(columns) ==
    LET sign(cell) == IF SubSeq(cell, 1, 1) = "+" THEN 1 ELSE -1
        name(cell) == SubSeq(cell, 2, Len(cell))
        names == <<name(columns[1]), name(columns[2]), name(columns[3])>>
        even == {<<"posteroanterior", "inferosuperior", "mediolateral">>,
                 <<"inferosuperior", "mediolateral", "posteroanterior">>,
                 <<"mediolateral", "posteroanterior", "inferosuperior">>}
        odd == {<<"inferosuperior", "posteroanterior", "mediolateral">>,
                <<"posteroanterior", "mediolateral", "inferosuperior">>,
                <<"mediolateral", "inferosuperior", "posteroanterior">>}
        signs == sign(columns[1]) * sign(columns[2]) * sign(columns[3])
    IN \/ names \in even /\ signs = 1
       \/ names \in odd /\ signs = -1

\* C22: check_all_segments_validity returns True iff every segment whose
\* columns are filled has its is_isb label consistent with its coordinate
\* system and has a direct coordinate system; empty segments do not count,
\* a failure of one segment is not undone by a later one, and no field of the
\* RowData is changed.
C22_AllSegmentsValidity ==
    (pc = "created" /\ returned # <<>>) =>
        /\ returned = <<B(\A sg \in Segment :
                            Filled(sg) =>
                                /\ check_is_isb_segment(row, SegmentSystem(row, sg))
                                /\ DirectDirections(row.segments[sg]))>>
        /\ joint = NoJoint
        /\ parent_biomech_sys = NoSys /\ child_biomech_sys = NoSys
        /\ parent_segment = row.parent /\ child_segment = row.child
        /\ \A flag \in {has_rotation_data, has_translation_data,
                        parent_segment_usable_for_rotation_data,
                        child_segment_usable_for_rotation_data,
                        parent_segment_usable_for_translation_data,
                        child_segment_usable_for_translation_data,
                        parent_definition_risk, child_definition_risk,
                        usable_rotation_data, usable_translation_data} : flag = None
        /\ rotation_correction_callback = NoCallback

\* the thorax fails, the later segments are valid or empty, the result is False
C22_Witness ==
    /\ pc = "created" /\ returned = <<B(FALSE)>>
    /\ Filled(THORAX) /\ ~DirectDirections(row.segments[THORAX])
    /\ ~Filled(CLAVICLE)
    /\ Filled(HUMERUS) /\ check_is_isb_segment(row, SegmentSystem(row, HUMERUS))
    /\ DirectDirections(row.segments[HUMERUS])

\* C23: check_joint_validity sets has_rotation_data and has_translation_data to
\* whether the Euler sequence, resp. the translation, is provided; with
\* neither it returns False and leaves joint None; otherwise it builds the
\* Joint, whose translation origin and frame are None exactly when no
\* translation is provided, and returns True iff the parent and child are
\* those of the joint and neither has empty columns.
C23_JointValidity ==
    pc = "joint_checked" =>
        LET rotation == row.euler_sequence # NaN
            translation == row.origin_displacement # NaN /\ row.displacement_cs # NaN
        IN /\ has_rotation_data = B(rotation)
           /\ has_translation_data = B(translation)
           /\ (~rotation /\ ~translation) => (returned = <<B(FALSE)>> /\ joint = NoJoint)
           /\ (rotation \/ translation) =>
                 /\ joint.joint_type = row.joint
                 /\ joint.euler_sequence = euler_sequence_to_enum(row.euler_sequence)
                 /\ (joint.translation_origin = None /\ joint.translation_frame = None)
                       <=> ~translation
                 /\ translation => /\ joint.translation_origin = row.origin_displacement
                                   /\ joint.translation_frame = row.displacement_cs
                 /\ returned = <<B(/\ row.parent = joint_parent(row.joint)
                                   /\ row.child = joint_child(row.joint)
                                   /\ Filled(row.parent) /\ Filled(row.child))>>

\* rotation and translation are both provided, and the child's columns are empty
C23_Witness ==
    /\ pc = "joint_checked"
    /\ row.euler_sequence # NaN /\ row.displacement_cs # NaN
    /\ joint.translation_frame = row.displacement_cs
    /\ row.parent = joint_parent(row.joint)
    /\ ~Filled(row.child)
    /\ returned = <<B(FALSE)>>

-----------------------------------------------------------------------------
(* Properties of the parsing of the axis cells *)

\* the cell is 'vec(START>END)' with exactly one '>'
OneArrowVector(cell) ==
    /\ Len(cell) >= 6
    /\ SubSeq(cell, 1, 4) = "vec("
    /\ SubSeq(cell, Len(cell), Len(cell)) = ")"
    /\ Len(Split(SubSeq(cell, 5, Len(cell) - 1), ">")) = 2

\* C24: a cell without a cross product that is not 'vec(START>END)' with
\* exactly one '>' makes the parsing raise ValueError, 'vec(A>B>C)' included;
\* stated on the calls of from_xyz_string that parse their cells (every
\* pattern but the y axis crossed twice).
C24_MalformedVectorRaises ==
    (Parsed /\ ~(YPattern /\ ~XPattern)) =>
        \A cell \in {descriptor.x_axis, descriptor.y_axis, descriptor.z_axis} :
            (~Contains("^", cell) /\ ~OneArrowVector(cell)) =>
                (~Returned /\ raised = "ValueError")

-----------------------------------------------------------------------------
(* RowData.extract_corrections on the cells as the dataset holds them *)

\* a cell of a correction column: the float NaN of an empty cell, or a string
FloatCell == [type |-> "float", value |-> NaN]
StrCell(text) == [type |-> "str", value |-> text]

\* extract_corrections, on the text of the cell
extract_corrections_of_cell(correction_cell) ==
    LET RECURSIVE without_spaces(_)
        without_spaces(text) ==
            IF text = "" THEN ""
            ELSE IF SubSeq(text, 1, 1) = " " THEN without_spaces(SubSeq(text, 2, Len(text)))
            ELSE SubSeq(text, 1, 1) \o without_spaces(SubSeq(text, 2, Len(text)))
        \* after `if correction_cell == "nan": correction_cell = None`
        cell == IF correction_cell = StrCell("nan") THEN PyNone ELSE correction_cell
    IN IF cell = PyNone
       THEN Raise("TypeError")   \* np.isnan(None)
       ELSE IF cell.type # "str"
       THEN IF cell.value = NaN THEN NoCorrection ELSE cell
       ELSE LET tokens == Split(without_spaces(cell.value), ",")
            IN CorrectionList([i \in 1..Len(tokens) |-> correction_str_to_enum(tokens[i])])

\* the texts found in the correction columns
CorrectionTexts ==
    {"nan", "to_isb", "to_isb_like", "kolz_AC_to_PA", "kolz_GC_to_PA",
     "to_isb, kolz_AC_to_PA", "kolz_AC_to_PA,to_isb", " to_isb_like , kolz_GC_to_PA",
     "to_isb,to_isb", "kolz_GC_to_PA, to_isb_like, to_isb"}

CellInit ==
    /\ row \in {[joint |-> GLENO_HUMERAL, parent |-> SCAPULA, child |-> HUMERUS,
                 corrections |-> [sg \in Segment |->
                                     IF sg = SCAPULA THEN p
                                     ELSE IF sg = HUMERUS THEN c ELSE FloatCell]] :
                    p, c \in {FloatCell} \cup {StrCell(text) : text \in CorrectionTexts}}
    /\ pc = "created"
    /\ joint = NoJoint
    /\ parent_segment = row.parent
    /\ child_segment = row.child
    /\ parent_biomech_sys = NoSys
    /\ child_biomech_sys = NoSys
    /\ has_rotation_data = None
    /\ has_translation_data = None
    /\ parent_segment_usable_for_rotation_data = None
    /\ child_segment_usable_for_rotation_data = None
    /\ parent_segment_usable_for_translation_data = None
    /\ child_segment_usable_for_translation_data = None
    /\ parent_definition_risk = None
    /\ child_definition_risk = None
    /\ usable_rotation_data = None
    /\ usable_translation_data = None
    /\ rotation_correction_callback = NoCallback
    /\ returned = <<>>
    /\ raised = None
    /\ derivation = NoDerivation
    /\ descriptor = PyNone
    /\ frame = NoFrame
    /\ default_vectors = <<>>
    /\ properties = PyNone
    /\ deviation = <<>>
    /\ total_deviation = None

\* one call extract_corrections(segment); `returned` keeps the argument and,
\* unless the call raised, the value returned
ExtractCorrections ==
    /\ pc = "created"
    /\ \E segment \in {parent_segment, child_segment} :
          LET result == extract_corrections_of_cell(get_correction_column(row, segment))
          IN IF result = Raise("TypeError")
             THEN /\ raised' = "TypeError"
                  /\ returned' = <<segment>>
             ELSE /\ raised' = None
                  /\ returned' = <<segment, result>>
    /\ pc' = "extracted"
    /\ UNCHANGED <<row_vars, frame_vars, deviation_vars>>

CellSpec == CellInit /\ [][ExtractCorrections]_vars

-----------------------------------------------------------------------------
(* Properties of extract_corrections *)

\* the tags each text declares, in the order it declares them
DeclaredTags(text) ==
    CASE text = "to_isb" -> <<TO_ISB_ROTATION>>
      [] text = "to_isb_like" -> <<TO_ISB_LIKE_ROTATION>>
      [] text = "kolz_AC_to_PA" -> <<SCAPULA_KOLZ_AC_TO_PA_ROTATION>>
      [] text = "kolz_GC_to_PA" -> <<SCAPULA_KOLZ_GLENOID_TO_PA_ROTATION>>
      [] text = "to_isb, kolz_AC_to_PA" -> <<TO_ISB_ROTATION, SCAPULA_KOLZ_AC_TO_PA_ROTATION>>
      [] text = "kolz_AC_to_PA,to_isb" -> <<SCAPULA_KOLZ_AC_TO_PA_ROTATION, TO_ISB_ROTATION>>
      [] text = " to_isb_like , kolz_GC_to_PA" ->
             <<TO_ISB_LIKE_ROTATION, SCAPULA_KOLZ_GLENOID_TO_PA_ROTATION>>
      [] text = "to_isb,to_isb" -> <<TO_ISB_ROTATION, TO_ISB_ROTATION>>
      [] text = "kolz_GC_to_PA, to_isb_like, to_isb" ->
             <<SCAPULA_KOLZ_GLENOID_TO_PA_ROTATION, TO_ISB_LIKE_ROTATION, TO_ISB_ROTATION>>

\* what the call is to return for a cell
ExpectedCorrections(cell) ==
    IF cell = FloatCell \/ cell = StrCell("nan")
    THEN NoCorrection
    ELSE CorrectionList(DeclaredTags(cell.value))

\* C21: extract_corrections returns None when the cell is missing (the float
\* NaN or the string 'nan'), and otherwise the list of the Correction tags of
\* its comma-separated tokens, spaces removed, one entry per token in the
\* declared order.
C21_ExtractCorrections ==
    pc = "extracted" =>
        /\ raised = None
        /\ Len(returned) = 2
        /\ returned[2] = ExpectedCorrections(row.corrections[returned[1]])

\* the rest of the claim: every cell but the string 'nan' gives what is said
C21_AllButTheNanString ==
    (pc = "extracted" /\ row.corrections[returned[1]] # StrCell("nan")) =>
        /\ raised = None
        /\ returned = <<returned[1], ExpectedCorrections(row.corrections[returned[1]])>>

====
